---- MODULE Spec2Model ----
(***************************************************************************)
(* Model of the pill-dispenser control application (src/src/test.py):      *)
(* the medication data held by ResponsiveAutoPillDispenserApp, the         *)
(* submit_data handler with its background submit_task thread, the         *)
(* send_ble_data coroutine (real BLE path and simulated path) and the Tk   *)
(* callbacks the thread schedules with app.after.                          *)
(*                                                                         *)
(* Text is a sequence of one-character strings, a byte string a sequence   *)
(* of integers 0..255.  Durations are in ticks of 0.1 s.                   *)
(***************************************************************************)
EXTENDS Integers, Sequences, FiniteSets, TLC

(***************************************************************************)
(* Bounds of the model.                                                    *)
(***************************************************************************)
\* longest byte string handed directly to send_ble_data (SendSpec)
MaxLen == 4
\* largest chunk_size handed directly to send_ble_data (SendSpec)
MaxChunk == 3
\* most dose entries the operator puts into current_med_schedules
MaxDoses == 2
\* most app.after callbacks waiting for the Tk main loop at one time
MaxPending == 1
\* most further tokens after dosage1 on a prescription line (ParseSpec)
MaxTail == 3
\* most lines of a prescription text with lines of every kind (DocSpec)
MaxLines == 3
\* most lines of a prescription text with right lines only (DocSpec)
MaxMeds == 31

(***************************************************************************)
(* Program constants.                                                      *)
(***************************************************************************)
CHUNK_SIZE == 20
CHUNK_DELAY == 2
STEP_DELAY == 8
SETTLE_DELAY == 10
FINAL_DELAY == 5
MEDS_PER_PAGE == 15

(***************************************************************************)
(* Characters and bytes: str.encode('utf-8') on ASCII text.                *)
(***************************************************************************)
Printable ==
  << " ", "!", "\"", "#", "$", "%", "&", "'", "(", ")", "*", "+", ",", "-",
     ".", "/", "0", "1", "2", "3", "4", "5", "6", "7", "8", "9", ":", ";",
     "<", "=", ">", "?", "@", "A", "B", "C", "D", "E", "F", "G", "H", "I",
     "J", "K", "L", "M", "N", "O", "P", "Q", "R", "S", "T", "U", "V", "W",
     "X", "Y", "Z", "[", "\\", "]", "^", "_", "grave", "a", "b", "c", "d", "e",
     "f", "g", "h", "i", "j", "k", "l", "m", "n", "o", "p", "q", "r", "s",
     "t", "u", "v", "w", "x", "y", "z", "{", "|", "}", "~" >>

\* Printable[k] is the character with code point 31 + k (the grave accent, which
\* no text of the model holds, is spelled out)
Ord(c) ==
  IF c = "\n" THEN 10
  ELSE IF c = "\r" THEN 13
  ELSE 31 + (CHOOSE k \in 1..Len(Printable) : Printable[k] = c)

EncodeUtf8(s) == [k \in 1..Len(s) |-> Ord(s[k])]

Digits == <<"0", "1", "2", "3", "4", "5", "6", "7", "8", "9">>

IsDigit(c) == \E k \in 1..10 : Digits[k] = c

DigitVal(c) == (CHOOSE k \in 1..10 : Digits[k] = c) - 1

\* the concatenation of a sequence of sequences, in order
RECURSIVE Concat(_)
Concat(ss) == IF ss = <<>> THEN <<>> ELSE Head(ss) \o Concat(Tail(ss))

(***************************************************************************)
(* json.dumps(obj, indent=2) on the medication list.                       *)
(***************************************************************************)
RECURSIVE NatStr(_)
NatStr(n) == IF n < 10 THEN <<Digits[n + 1]>>
             ELSE NatStr(n \div 10) \o <<Digits[(n % 10) + 1]>>

IntStr(n) == IF n < 0 THEN <<"-">> \o NatStr(0 - n) ELSE NatStr(n)

EscapeChar(c) ==
  IF c = "\"" THEN <<"\\", "\"">>
  ELSE IF c = "\\" THEN <<"\\", "\\">>
  ELSE IF c = "\n" THEN <<"\\", "n">>
  ELSE <<c>>

JsonString(s) ==
  <<"\"">> \o Concat([k \in 1..Len(s) |-> EscapeChar(s[k])]) \o <<"\"">>

Indent(level) == [k \in 1..(2 * level) |-> " "]

\* items one per line at the given nesting level, separated by ",\n"
JsonItems(items, level) ==
  Concat([k \in 1..Len(items) |->
            (IF k = 1 THEN <<>> ELSE <<",", "\n">>)
            \o Indent(level) \o items[k]])

JsonKey(name) == JsonString(name) \o <<":", " ">>

K_tube == <<"t", "u", "b", "e">>
K_type == <<"t", "y", "p", "e">>
K_amount == <<"a", "m", "o", "u", "n", "t">>
K_time_to_take == <<"t", "i", "m", "e", "_", "t", "o", "_", "t", "a", "k", "e">>
K_time == <<"t", "i", "m", "e">>
K_dosage == <<"d", "o", "s", "a", "g", "e">>

JsonObject(members, level) ==
  IF members = <<>> THEN <<"{", "}">>
  ELSE <<"{", "\n">> \o JsonItems(members, level + 1)
       \o <<"\n">> \o Indent(level) \o <<"}">>

JsonArray(elements, level) ==
  IF elements = <<>> THEN <<"[", "]">>
  ELSE <<"[", "\n">> \o JsonItems(elements, level + 1)
       \o <<"\n">> \o Indent(level) \o <<"]">>

DumpSchedule(s, level) ==
  JsonObject(<< JsonKey(K_time) \o JsonString(s.time),
                JsonKey(K_dosage) \o JsonString(s.dosage) >>, level)

DumpMedication(m, level) ==
  JsonObject(<< JsonKey(K_tube) \o JsonString(m.tube),
                JsonKey(K_type) \o JsonString(m.type),
                JsonKey(K_amount) \o IntStr(m.amount),
                JsonKey(K_time_to_take)
                  \o JsonArray([k \in 1..Len(m.time_to_take) |->
                                  DumpSchedule(m.time_to_take[k], level + 2)],
                               level + 1) >>, level)

JsonDumps(data) ==
  JsonArray([k \in 1..Len(data) |-> DumpMedication(data[k], 1)], 0)

START_SENTINEL == <<"#", "S", "T", "A", "R", "T", "#">>
END_SENTINEL == <<"#", "E", "N", "D", "#">>

\* "#START#" + json.dumps(self.medication_data, indent=2) + "#END#"
FormatPayload(data) == START_SENTINEL \o JsonDumps(data) \o END_SENTINEL

(***************************************************************************)
(* Text helpers: str.strip, str.split(":"), int(str).                      *)
(***************************************************************************)
RECURSIVE LStrip(_)
LStrip(s) == IF s # <<>> /\ Head(s) = " " THEN LStrip(Tail(s)) ELSE s

RECURSIVE RStrip(_)
RStrip(s) == IF s # <<>> /\ s[Len(s)] = " "
             THEN RStrip(SubSeq(s, 1, Len(s) - 1)) ELSE s

Strip(s) == RStrip(LStrip(s))

\* s.split(sep): the pieces of s between the occurrences of the character sep
RECURSIVE Split(_, _)
Split(s, sep) ==
  IF \A k \in 1..Len(s) : s[k] # sep THEN <<s>>
  ELSE LET p == CHOOSE k \in 1..Len(s) :
                  s[k] = sep /\ \A j \in 1..(k - 1) : s[j] # sep
       IN <<SubSeq(s, 1, p - 1)>> \o Split(SubSeq(s, p + 1, Len(s)), sep)

\* sep.join(parts)
RECURSIVE JoinWith(_, _)
JoinWith(parts, sep) ==
  IF parts = <<>> THEN <<>>
  ELSE IF Len(parts) = 1 THEN parts[1]
  ELSE parts[1] \o sep \o JoinWith(Tail(parts), sep)

\* int(s) succeeds: optional blanks around an optional sign and one or more digits
IsPyInt(s) ==
  LET t == Strip(s)
      d == IF t # <<>> /\ Head(t) \in {"+", "-"} THEN Tail(t) ELSE t
  IN d # <<>> /\ \A k \in 1..Len(d) : IsDigit(d[k])

RECURSIVE DigitsVal(_)
DigitsVal(d) == IF d = <<>> THEN 0
                ELSE 10 * DigitsVal(SubSeq(d, 1, Len(d) - 1)) + DigitVal(d[Len(d)])

PyInt(s) ==
  LET t == Strip(s)
  IN IF Head(t) = "-" THEN 0 - DigitsVal(Tail(t))
     ELSE IF Head(t) = "+" THEN DigitsVal(Tail(t))
     ELSE DigitsVal(t)

(***************************************************************************)
(* The values the operator, the file system and the BLE scan supply.       *)
(***************************************************************************)
EmptyText == <<>>
Tube1 == <<"t", "u", "b", "e", "1">>
Tube2 == <<"t", "u", "b", "e", "2">>
Iron == <<"I", "r", "o", "n">>
T0900 == <<"0", "9", ":", "0", "0">>
T2500 == <<"2", "5", ":", "0", "0">>
T9_5 == <<"9", ":", "5">>
OneTab == <<"1", " ", "t", "a", "b">>
Amount5 == <<"5">>
Amount0 == <<"0">>

GoodRecord ==
  [tube |-> Tube1, type |-> Iron, amount |-> 5,
   time_to_take |-> <<[time |-> T0900, dosage |-> OneTab]>>]

\* every key present, every value of the right JSON type, nothing else right
BadRecord ==
  [tube |-> EmptyText, type |-> EmptyText, amount |-> 0, time_to_take |-> <<>>]

NoAmountRecord ==
  [tube |-> Tube1, type |-> Iron,
   time_to_take |-> <<[time |-> T0900, dosage |-> OneTab]>>]

\* what open() and json.load() give for a chosen path: an exception, a JSON
\* value that is no list, or a list of objects
JsonFiles ==
  { [kind |-> "error", items |-> <<>>, path |-> "bad.json"],
    [kind |-> "dict", items |-> <<>>, path |-> "bad.json"],
    [kind |-> "list", items |-> <<>>, path |-> "meds.json"],
    [kind |-> "list", items |-> <<GoodRecord>>, path |-> "meds.json"],
    [kind |-> "list", items |-> <<BadRecord>>, path |-> "meds.json"],
    [kind |-> "list", items |-> <<NoAmountRecord>>, path |-> "bad.json"] }

\* a record whose type is the text of the end sentinel
SentinelRecord ==
  [tube |-> Tube1, type |-> END_SENTINEL, amount |-> 5,
   time_to_take |-> <<[time |-> T0900, dosage |-> OneTab]>>]

\* a record whose one schedule has an empty dosage
EmptyDosageRecord ==
  [tube |-> Tube1, type |-> Iron, amount |-> 5,
   time_to_take |-> <<[time |-> T0900, dosage |-> EmptyText]>>]

\* the files above and two more lists with every key in place
LoadFiles ==
  JsonFiles \cup
    { [kind |-> "list", items |-> <<SentinelRecord>>, path |-> "odd.json"],
      [kind |-> "list", items |-> <<EmptyDosageRecord>>, path |-> "odd.json"] }

TubeInputs == {EmptyText, Tube1, Tube2}
TypeInputs == {Iron}
AmountInputs == {Amount5, Amount0}
TimeInputs == {T0900, T2500, T9_5}
DosageInputs == {OneTab}

Modes == {"json", "manual", "qr"}

RealAddress == "AA:BB:CC:DD:EE:FF"
PlaceholderAddress == "00:00:00:00:00:00"
SimErrorAddress == "SIM:00:00:00:00:00"
ShortZeroAddress == "00:00:00:00:00"

\* the addresses that start with "SIM:"
SimPrefixed == {SimErrorAddress}

\* what get_ble_devices can return: display name -> address
DiscoveryResults ==
  { [n \in {"PillBox"} |-> RealAddress],
    [n \in {"Simulation Device (BLE Error)"} |-> SimErrorAddress] }

DeviceNames == {"PillBox", "Simulation Device (BLE Error)"}

\* str(e) of what BleakClient raises
ConnectErrors == {"Device with address was not found"}
WriteErrors == {"Not connected"}


(***************************************************************************)
(* State.                                                                  *)
(***************************************************************************)
VARIABLES
  \* ResponsiveAutoPillDispenserApp fields and widgets
  upload_mode, medication_data, qr_data, manual_medications,
  current_med_schedules, ble_var, ble_devices,
  is_sending, submit_btn, status_label, chunk_progress_label,
  \* callbacks handed to app.after(0, ...) and not yet run by the main loop
  uiq,
  \* the submit_task thread: its position, the variables it closes over
  \* (mode, device_name) and its locals
  pc, task_mode, task_device, data, step_i, data_bytes, total_chunks,
  device_address, exc,
  \* send_ble_data: its parameters and locals
  chunk_size, chunk_delay, offset, chunk_num, chunk_data,
  \* the BLE link: whether a client connection is open
  connected,
  \* history: the records the payload was built from, the chunks sent so far
  \* (written to the characteristic, or walked by the simulation), the time
  \* slept by the thread, what failed ("resolve", "connect", "write") and the
  \* chunk whose write raised, and the outcomes
  \* shown to the operator since the submission started
  task_records, sent, now, fault, failed_chunk, reported,
  \* history: the medication data as it stood when the operator confirmed the
  \* submission
  confirmed_records,
  \* the operator's wish to stop the transfer: the number of chunks sent when
  \* it was expressed, -1 while it has not been
  cancel_at,
  \* the acknowledgment bytes an acknowledged transport has returned
  acks,
  \* parse_line of the prescription builder: its argument and what it gave
  line, parsed,
  \* the last call of get_ble_devices: the world it ran in and its outcome
  last_scan,
  \* the prescription builder: the content of the text box, what
  \* parse_multiline gave for it and what generate_images gave for it
  prescription_text, multi, pages,
  \* the rows of the schedule list widget and of the medication list widget
  schedule_listbox, manual_listbox,
  \* the path shown for the loaded file and the row picked in the device list
  file_var, selected_ble_device,
  \* the error that submit_data or process_json_file showed when it ran last,
  \* "" when it showed none
  last_message

uiVars == <<upload_mode, medication_data, qr_data, manual_medications,
            current_med_schedules, ble_var, ble_devices>>

widgetVars == <<is_sending, submit_btn, status_label, chunk_progress_label>>

taskVars == <<pc, task_mode, task_device, data, step_i, data_bytes,
              total_chunks, device_address, exc, task_records>>

sendVars == <<chunk_size, chunk_delay, offset, chunk_num, chunk_data>>

linkVars == <<connected, sent, now, fault, failed_chunk>>

extVars == <<confirmed_records, cancel_at, acks, line, parsed, last_scan>>

docVars == <<prescription_text, multi, pages>>

listVars == <<schedule_listbox, manual_listbox>>

auxVars == <<docVars, listVars, file_var, selected_ble_device, last_message>>

vars == <<uiVars, widgetVars, uiq, taskVars, sendVars, linkVars, reported,
          extVars, auxVars>>

NoText == [text |-> ""]
NoExc == [text |-> ""]

\* the values of a row of the medication list widget, lines 1250-1252
SchedulesStr(schedules) ==
  JoinWith([k \in 1..Len(schedules) |->
              schedules[k].time \o <<" ", "(">> \o schedules[k].dosage
                \o <<")">>],
           <<",", " ">>)

MedicationRow(med) ==
  <<med.tube, med.type,
    IntStr(med.amount) \o <<" ", "t", "a", "b", "l", "e", "t", "s">>,
    SchedulesStr(med.time_to_take)>>

\* a refresh that leaves the last record out
ManualRowsStale(meds) ==
  [k \in 1..(Len(meds) - 1) |-> MedicationRow(meds[k])]

\* update_manual_listbox, lines 1243-1252: the widget is emptied and filled
\* again from the list
ManualRows(meds) == [k \in 1..Len(meds) |-> MedicationRow(meds[k])]

\* no row of the device list is picked
NoDevice == [name |-> "", address |-> ""]

\* parse_line has not been called
NotParsed == [kind |-> "none"]

\* get_ble_devices has not been followed
NoScan == [kind |-> "none"]

\* the state __init__ leaves, with whatever the first scan found; manual is
\* the content of the manual list
InitWith(manual) ==
  /\ upload_mode = "json"
  /\ medication_data = <<>>
  /\ qr_data = EmptyText
  /\ manual_medications = manual
  /\ current_med_schedules = <<>>
  /\ ble_var = ""
  /\ ble_devices \in DiscoveryResults
  /\ is_sending = FALSE
  /\ submit_btn = "normal"
  /\ status_label = "Ready for configuration"
  /\ chunk_progress_label = NoText
  /\ uiq = <<>>
  /\ pc = "idle"
  /\ task_mode = "json"
  /\ task_device = ""
  /\ data = EmptyText
  /\ step_i = 0
  /\ data_bytes = <<>>
  /\ total_chunks = 0
  /\ device_address = ""
  /\ exc = NoExc
  /\ chunk_size = CHUNK_SIZE
  /\ chunk_delay = CHUNK_DELAY
  /\ offset = 0
  /\ chunk_num = 0
  /\ chunk_data = <<>>
  /\ connected = FALSE
  /\ task_records = <<>>
  /\ sent = <<>>
  /\ now = 0
  /\ fault = "none"
  /\ failed_chunk = 0
  /\ reported = <<>>
  /\ confirmed_records = <<>>
  /\ cancel_at = -1
  /\ acks = <<>>
  /\ line = EmptyText
  /\ parsed = NotParsed
  /\ last_scan = NoScan
  /\ prescription_text = EmptyText
  /\ multi = NotParsed
  /\ pages = NotParsed
  /\ schedule_listbox = <<>>
  /\ manual_listbox = ManualRows(manual)
  /\ file_var = ""
  /\ selected_ble_device = NoDevice
  /\ last_message = ""

Init == InitWith(<<>>)

(***************************************************************************)
(* Handlers of the Tk main loop: data entry.                               *)
(***************************************************************************)
switch_mode(mode) ==
  /\ upload_mode' = mode
  /\ UNCHANGED <<medication_data, qr_data, manual_medications,
                 current_med_schedules, ble_var,
                 ble_devices, widgetVars, uiq, taskVars, sendVars, linkVars,
                 reported, extVars, auxVars>>

\* the validation loop of process_json_file over the loaded list
JsonAccepted(file) ==
  /\ file.kind = "list"
  /\ \A k \in 1..Len(file.items) :
       LET med == file.items[k]
       IN /\ {"tube", "type", "amount", "time_to_take"} \subseteq DOMAIN med
          /\ \A j \in 1..Len(med.time_to_take) :
               {"time", "dosage"} \subseteq DOMAIN med.time_to_take[j]

\* display_medication_preview, lines 803-805: schedule['dosage'].split()[0]
\* raises IndexError for a dosage that is empty or blank
PreviewRaises(items) ==
  \E k \in 1..Len(items) :
    \E j \in 1..Len(items[k].time_to_take) :
      Strip(items[k].time_to_take[j].dosage) = <<>>

\* lines 725-769: the file is read and checked, then stored and shown; an
\* exception at any point ends in the notification "Error loading file"
process_json_file(file) ==
  /\ IF JsonAccepted(file)
     THEN /\ medication_data' = file.items
          /\ file_var' = file.path
          /\ last_message' = IF PreviewRaises(file.items)
                             THEN "Error loading file" ELSE ""
     ELSE /\ last_message' = "Error loading file"
          /\ UNCHANGED <<medication_data, file_var>>
  /\ UNCHANGED <<upload_mode, qr_data, manual_medications,
                 current_med_schedules, ble_var,
                 ble_devices, widgetVars, uiq, taskVars, sendVars, linkVars,
                 reported, extVars, docVars, listVars, selected_ble_device>>

\* the time check of add_schedule: two ":"-separated integers in range
TimeAccepted(time_str) ==
  LET time_parts == Split(time_str, ":")
  IN /\ Len(time_parts) = 2
     /\ IsPyInt(time_parts[1])
     /\ IsPyInt(time_parts[2])
     /\ LET hour == PyInt(time_parts[1])
            minute == PyInt(time_parts[2])
        IN 0 <= hour /\ hour <= 23 /\ 0 <= minute /\ minute <= 59

add_schedule(time_in, dosage_in) ==
  LET time_str == Strip(time_in)
      dosage_str == Strip(dosage_in)
  IN /\ Len(current_med_schedules) < MaxDoses
     /\ IF time_str # <<>> /\ dosage_str # <<>> /\ TimeAccepted(time_str)
        THEN /\ current_med_schedules' =
                  Append(current_med_schedules,
                         [time |-> time_str, dosage |-> dosage_str])
             /\ schedule_listbox' =
                  Append(schedule_listbox, <<time_str, dosage_str>>)
        ELSE UNCHANGED <<current_med_schedules, schedule_listbox>>
     /\ UNCHANGED <<upload_mode, medication_data, qr_data, manual_medications,
                    ble_var, ble_devices, widgetVars,
                    uiq, taskVars, sendVars, linkVars, reported, extVars,
                 docVars, file_var, selected_ble_device, last_message>>
     /\ UNCHANGED manual_listbox

\* seq without its element at position index (list.pop(index))
RemoveAt(seq, index) ==
  SubSeq(seq, 1, index - 1) \o SubSeq(seq, index + 1, Len(seq))

remove_schedule(index) ==
  /\ index \in 1..Len(current_med_schedules)
  /\ current_med_schedules' = RemoveAt(current_med_schedules, index)
  /\ UNCHANGED <<upload_mode, medication_data, qr_data, manual_medications,
                 ble_var, ble_devices, widgetVars,
                 uiq, taskVars, sendVars, linkVars, reported, extVars,
                 docVars, file_var, selected_ble_device, last_message>>
  /\ schedule_listbox' = RemoveAt(schedule_listbox, index)
  /\ UNCHANGED manual_listbox

\* a search that never finds the tube
FirstWithTubeMissed(meds, tube) == 0

\* position of the first record holding tube, 0 when there is none
FirstWithTube(meds, tube) ==
  IF \E k \in 1..Len(meds) : meds[k].tube = tube
  THEN CHOOSE k \in 1..Len(meds) :
         meds[k].tube = tube /\ \A j \in 1..(k - 1) : meds[j].tube # tube
  ELSE 0

save_medication(tube, type_in, amount_in, replace) ==
  LET med_type == Strip(type_in)
      amount_str == Strip(amount_in)
      used == FirstWithTube(manual_medications, tube)
      kept == IF used = 0 THEN manual_medications
              ELSE RemoveAt(manual_medications, used)
      accepted ==
        /\ tube # <<>> /\ med_type # <<>> /\ amount_str # <<>>
        /\ current_med_schedules # <<>>
        /\ IsPyInt(amount_str)
        /\ PyInt(amount_str) > 0
        /\ (used # 0 => replace)
  IN /\ IF accepted
        THEN /\ manual_medications' =
                  Append(kept, [tube |-> tube, type |-> med_type,
                                amount |-> PyInt(amount_str),
                                time_to_take |-> current_med_schedules])
             /\ manual_listbox' =
                  ManualRows(Append(kept, [tube |-> tube, type |-> med_type,
                                           amount |-> PyInt(amount_str),
                                           time_to_take |->
                                             current_med_schedules]))
             /\ current_med_schedules' = <<>>
             /\ schedule_listbox' = <<>>
        ELSE UNCHANGED <<manual_medications, current_med_schedules,
                         listVars>>
     /\ UNCHANGED <<upload_mode, medication_data, qr_data,
                    ble_var, ble_devices, widgetVars,
                    uiq, taskVars, sendVars, linkVars, reported, extVars,
                    docVars, file_var, selected_ble_device, last_message>>

clear_medication_form ==
  /\ current_med_schedules' = <<>>
  /\ UNCHANGED <<upload_mode, medication_data, qr_data, manual_medications,
                 ble_var, ble_devices, widgetVars,
                 uiq, taskVars, sendVars, linkVars, reported, extVars,
                 docVars, file_var, selected_ble_device, last_message>>
  /\ schedule_listbox' = <<>>
  /\ UNCHANGED manual_listbox

remove_manual_medication(index) ==
  /\ index \in 1..Len(manual_medications)
  /\ manual_medications' = RemoveAt(manual_medications, index)
  /\ UNCHANGED <<upload_mode, medication_data, qr_data,
                 current_med_schedules, ble_var,
                 ble_devices, widgetVars, uiq, taskVars, sendVars, linkVars,
                 reported, extVars,
                 docVars, file_var, selected_ble_device, last_message>>
  /\ manual_listbox' = RemoveAt(manual_listbox, index)
  /\ UNCHANGED schedule_listbox

\* formatted_manual_data, which the handler also sets (to
\* FormatPayload(self.medication_data)), is read nowhere in the program and is
\* not part of the state
use_manual_data ==
  /\ IF manual_medications # <<>>
     THEN medication_data' = manual_medications
     ELSE UNCHANGED medication_data
  /\ UNCHANGED <<upload_mode, qr_data, manual_medications,
                 current_med_schedules, ble_var, ble_devices, widgetVars,
                 uiq, taskVars, sendVars, linkVars, reported, extVars, auxVars>>

clear_data ==
  /\ medication_data' = <<>>
  /\ qr_data' = EmptyText
  /\ manual_medications' = <<>>
  /\ current_med_schedules' = <<>>
  /\ UNCHANGED <<upload_mode, ble_var, ble_devices,
                 widgetVars, uiq, taskVars, sendVars, linkVars, reported, extVars,
                 docVars, selected_ble_device, last_message>>
  /\ file_var' = ""
  /\ manual_listbox' = <<>>
  /\ schedule_listbox' = <<>>

reset_app ==
  /\ medication_data' = <<>>
  /\ qr_data' = EmptyText
  /\ manual_medications' = <<>>
  /\ current_med_schedules' = <<>>
  /\ ble_var' = ""
  /\ upload_mode' = "json"
  /\ status_label' = "Ready for configuration"
  /\ chunk_progress_label' = NoText
  /\ UNCHANGED <<ble_devices, is_sending, submit_btn,
                 uiq, taskVars, sendVars, linkVars, reported, extVars,
                 docVars, selected_ble_device, last_message>>
  /\ file_var' = ""
  /\ manual_listbox' = <<>>
  /\ schedule_listbox' = <<>>

(***************************************************************************)
(* Device discovery: scan_ble_devices and get_ble_devices.                 *)
(***************************************************************************)
\* devices BleakScanner.discover() may report: name ("" for None), address
\* and whether an rssi is given
PillBoxDev == [name |-> "PillBox", address |-> RealAddress, rssi |-> FALSE]
PillBoxRssiDev == [name |-> "PillBox", address |-> RealAddress, rssi |-> TRUE]
NamelessDev == [name |-> "", address |-> RealAddress, rssi |-> FALSE]
NoAddressDev == [name |-> "PillBox", address |-> "", rssi |-> FALSE]

\* what the scan does: returns a list of devices, runs into the timeout of
\* wait_for, or raises
ScanOutcomes ==
  { [kind |-> "devices", found |-> <<>>],
    [kind |-> "devices", found |-> <<PillBoxDev>>],
    [kind |-> "devices", found |-> <<PillBoxRssiDev>>],
    [kind |-> "devices", found |-> <<NamelessDev>>],
    [kind |-> "devices", found |-> <<NoAddressDev>>],
    [kind |-> "timeout", found |-> <<>>],
    [kind |-> "error", found |-> <<>>] }

NotScanned == [kind |-> "devices", found |-> <<>>]

\* the world get_ble_devices runs in: the value of BLEAK_AVAILABLE, whether
\* setting up or running the event loop raises, and what the scan does; the
\* scan is not reached when the library is missing or the loop raises
ScanEnvs ==
  { [bleak |-> FALSE, loop |-> "ok", scan |-> NotScanned],
    [bleak |-> TRUE, loop |-> "raises", scan |-> NotScanned] }
  \cup { [bleak |-> TRUE, loop |-> "ok", scan |-> o] : o \in ScanOutcomes }

\* full_name = f"{device_name}{rssi_info}"
FullName(device) ==
  LET device_name == IF device.name # "" THEN device.name ELSE "Unknown Device"
  IN IF device.rssi
     THEN (IF device_name = "PillBox" THEN "PillBox (RSSI: -60)"
           ELSE "Unknown Device (RSSI: -60)")
     ELSE device_name

\* devices[name] = address
Put(devices, name, address) ==
  [n \in DOMAIN devices \cup {name} |->
     IF n = name THEN address ELSE devices[n]]

NoDevices == [n \in {} |-> ""]

\* lines 1054-1059: the loop over the discovered devices
RECURSIVE Collect(_, _)
Collect(devices, found) ==
  IF found = <<>> THEN devices
  ELSE Collect(IF Head(found).address # ""
               THEN Put(devices, FullName(Head(found)), Head(found).address)
               ELSE devices,
               Tail(found))

\* lines 1040-1072: every exception is caught, a mapping is returned
scan_ble_devices(outcome) ==
  CASE outcome.kind = "devices" ->
         LET devices == Collect(NoDevices, outcome.found)
         IN IF DOMAIN devices = {}
            THEN Put(devices, "No BLE devices found", PlaceholderAddress)
            ELSE devices
    [] outcome.kind = "timeout" ->
         Put(NoDevices, "Scan Timeout", PlaceholderAddress)
    [] OTHER ->
         Put(NoDevices, "Scan Error: scan failed...", PlaceholderAddress)

\* a get_ble_devices without its try: what the event loop raises gets out
get_ble_devices_unguarded(env) ==
  IF ~env.bleak
  THEN [raised |-> FALSE,
        value |-> Put(NoDevices, "Simulation Device", PlaceholderAddress)]
  ELSE IF env.loop = "raises"
  THEN [raised |-> TRUE, value |-> NoDevices]
  ELSE LET devices == scan_ble_devices(env.scan)
       IN [raised |-> FALSE,
           value |-> IF DOMAIN devices # {} THEN devices
                     ELSE Put(NoDevices, "No BLE devices found",
                              PlaceholderAddress)]

\* lines 955-995: the call's outcome, raised or returned, and the mapping
get_ble_devices(env) ==
  IF ~env.bleak
  THEN [raised |-> FALSE,
        value |-> Put(NoDevices, "Simulation Device", PlaceholderAddress)]
  ELSE IF env.loop = "raises"
  THEN [raised |-> FALSE,
        value |-> Put(NoDevices, "Simulation Device (BLE Error)",
                      SimErrorAddress)]
  ELSE LET devices == scan_ble_devices(env.scan)
       IN [raised |-> FALSE,
           value |-> IF DOMAIN devices # {} THEN devices
                     ELSE Put(NoDevices, "No BLE devices found",
                              PlaceholderAddress)]

\* the display names a scan can list
ScanNames == UNION {DOMAIN get_ble_devices(env).value : env \in ScanEnvs}

\* lines 1015-1021 with the scan spelled out; when get_ble_devices raises the
\* assignment of line 1021 does not happen
refresh_from_scan(env) ==
  /\ IF get_ble_devices(env).raised
     THEN UNCHANGED ble_devices
     ELSE ble_devices' = get_ble_devices(env).value
  /\ UNCHANGED <<upload_mode, medication_data, qr_data, manual_medications,
                 current_med_schedules, ble_var,
                 widgetVars, uiq, taskVars, sendVars, linkVars, reported,
                 confirmed_records, cancel_at, acks, line, parsed, auxVars>>
  /\ last_scan' = [env |-> env, result |-> get_ble_devices(env)]

(***************************************************************************)
(* Handlers of the Tk main loop: the device list.                          *)
(***************************************************************************)
\* lines 997-1013: the row picked in the device list, "" when none is picked;
\* the rows are those of ble_devices (lines 1021-1036)
on_device_select(name) ==
  /\ name = "" \/ name \in DOMAIN ble_devices
  /\ selected_ble_device' =
       IF name = "" THEN NoDevice
       ELSE [name |-> name, address |-> ble_devices[name]]
  /\ UNCHANGED <<uiVars, widgetVars, uiq, taskVars, sendVars, linkVars,
                 reported, extVars, docVars, listVars, file_var, last_message>>

refresh_ble_devices ==
  /\ ble_devices' \in DiscoveryResults
  /\ UNCHANGED <<upload_mode, medication_data, qr_data, manual_medications,
                 current_med_schedules, ble_var,
                 widgetVars, uiq, taskVars, sendVars, linkVars, reported, extVars, auxVars>>

\* ble_var is a StringVar no widget of the window is bound to: its value is
\* whatever the embedding code sets, a display name of some scan
set_ble_var(name) ==
  /\ ble_var' = name
  /\ UNCHANGED <<upload_mode, medication_data, qr_data, manual_medications,
                 current_med_schedules, ble_devices,
                 widgetVars, uiq, taskVars, sendVars, linkVars, reported, extVars, auxVars>>


(***************************************************************************)
(* submit_data and the submit_task thread it starts.                       *)
(***************************************************************************)
Steps == <<"Validating data...", "Connecting to device...", "Transmitting...",
           "Configuring...", "Complete!">>

\* a count that rounds down
TotalChunksFloor(length, size) == length \div size

\* (len(data_bytes) + CHUNK_SIZE - 1) // CHUNK_SIZE
TotalChunks(length, size) == (length + size - 1) \div size

\* a submit_data that leaves the submit button enabled
submit_data_button_left_on(confirm) ==
  /\ submit_btn = "normal"
  /\ IF \/ ble_var = ""
        \/ (upload_mode = "json" /\ medication_data = <<>>)
        \/ ~confirm
     THEN /\ last_message' =
               IF ble_var = "" THEN "Please select a BLE device!"
               ELSE IF upload_mode = "json" /\ medication_data = <<>>
               THEN "Please upload medication data!"
               ELSE ""
          /\ UNCHANGED <<widgetVars, taskVars, sendVars, linkVars, reported,
                         extVars, docVars, listVars, file_var, selected_ble_device>>
     ELSE /\ is_sending' = TRUE
          /\ submit_btn' = "normal"
          /\ status_label' = "Submitting..."
          /\ UNCHANGED chunk_progress_label
          /\ pc' = "encode"
          /\ task_mode' = upload_mode
          /\ task_device' = ble_var
          /\ data' = EmptyText
          /\ step_i' = 0
          /\ data_bytes' = <<>>
          /\ total_chunks' = 0
          /\ device_address' = ""
          /\ exc' = NoExc
          /\ task_records' = <<>>
          /\ chunk_size' = CHUNK_SIZE
          /\ chunk_delay' = CHUNK_DELAY
          /\ offset' = 0
          /\ chunk_num' = 0
          /\ chunk_data' = <<>>
          /\ sent' = <<>>
          /\ now' = 0
          /\ fault' = "none"
          /\ failed_chunk' = 0
          /\ reported' = <<>>
          /\ confirmed_records' = medication_data
          /\ last_message' = ""
          /\ UNCHANGED <<cancel_at, acks, line, parsed, last_scan,
                         docVars, listVars, file_var, selected_ble_device>>
          /\ UNCHANGED connected
  /\ UNCHANGED <<uiVars, uiq>>

\* lines 833-860 and 912: the checks, the confirmation, the thread's start;
\* the button runs its command only while its state is "normal"
submit_data(confirm) ==
  /\ submit_btn = "normal"
  /\ IF \/ ble_var = ""
        \/ (upload_mode = "json" /\ medication_data = <<>>)
        \/ ~confirm
     THEN /\ last_message' =
               IF ble_var = "" THEN "Please select a BLE device!"
               ELSE IF upload_mode = "json" /\ medication_data = <<>>
               THEN "Please upload medication data!"
               ELSE ""
          /\ UNCHANGED <<widgetVars, taskVars, sendVars, linkVars, reported,
                         extVars, docVars, listVars, file_var, selected_ble_device>>
     ELSE /\ is_sending' = TRUE
          /\ submit_btn' = "disabled"
          /\ status_label' = "Submitting..."
          /\ UNCHANGED chunk_progress_label
          /\ pc' = "encode"
          /\ task_mode' = upload_mode
          /\ task_device' = ble_var
          /\ data' = EmptyText
          /\ step_i' = 0
          /\ data_bytes' = <<>>
          /\ total_chunks' = 0
          /\ device_address' = ""
          /\ exc' = NoExc
          /\ task_records' = <<>>
          /\ chunk_size' = CHUNK_SIZE
          /\ chunk_delay' = CHUNK_DELAY
          /\ offset' = 0
          /\ chunk_num' = 0
          /\ chunk_data' = <<>>
          /\ sent' = <<>>
          /\ now' = 0
          /\ fault' = "none"
          /\ failed_chunk' = 0
          /\ reported' = <<>>
          /\ confirmed_records' = medication_data
          /\ last_message' = ""
          /\ UNCHANGED <<cancel_at, acks, line, parsed, last_scan,
                         docVars, listVars, file_var, selected_ble_device>>
          /\ UNCHANGED connected
  /\ UNCHANGED <<uiVars, uiq>>

\* lines 864-867: the payload text
task_encode ==
  /\ pc = "encode"
  /\ IF task_mode = "json"
     THEN /\ data' = FormatPayload(medication_data)
          /\ task_records' = medication_data
     ELSE /\ data' = qr_data
          /\ task_records' = <<>>
  /\ pc' = "steps"
  /\ UNCHANGED <<uiVars, widgetVars, uiq, task_mode, task_device, step_i,
                 data_bytes, total_chunks, device_address, exc, sendVars,
                 linkVars, reported, extVars, auxVars>>

\* lines 878-880: one turn of the status loop
task_step ==
  /\ pc = "steps"
  /\ step_i < Len(Steps)
  /\ Len(uiq) < MaxPending
  /\ now' = now + STEP_DELAY
  /\ uiq' = Append(uiq, [cb |-> "status", text |-> Steps[step_i + 1]])
  /\ step_i' = step_i + 1
  /\ UNCHANGED <<uiVars, widgetVars, pc, task_mode, task_device, data,
                 data_bytes, total_chunks, device_address, exc, task_records,
                 sendVars, connected, sent, fault, failed_chunk, reported, extVars, auxVars>>

\* self.ble_devices.get(device_name): "" stands for None
Lookup(devices, name) == IF name \in DOMAIN devices THEN devices[name] ELSE ""

\* lines 882-893: the bytes, the chunk count, the address, the call
task_prepare ==
  /\ pc = "steps"
  /\ step_i = Len(Steps)
  /\ data_bytes' = EncodeUtf8(data)
  /\ total_chunks' = TotalChunks(Len(EncodeUtf8(data)), CHUNK_SIZE)
  /\ device_address' = Lookup(ble_devices, task_device)
  /\ chunk_size' = CHUNK_SIZE
  /\ chunk_delay' = CHUNK_DELAY
  /\ IF Lookup(ble_devices, task_device) = ""
     THEN /\ exc' = [text |-> "Device address not found for",
                     device |-> task_device]
          /\ fault' = "resolve"
          /\ pc' = "raised"
     ELSE /\ pc' = "enter"
          /\ UNCHANGED <<exc, fault>>
  /\ UNCHANGED <<uiVars, widgetVars, uiq, task_mode, task_device, data,
                 step_i, task_records, offset, chunk_num, chunk_data,
                 connected, sent, now, failed_chunk, reported, extVars, auxVars>>

\* lines 895-900: asyncio.run returned
task_success ==
  /\ pc = "returned"
  /\ Len(uiq) < MaxPending
  /\ uiq' = Append(uiq, [cb |-> "success", device |-> task_device])
  /\ pc' = "finally"
  /\ UNCHANGED <<uiVars, widgetVars, task_mode, task_device, data, step_i,
                 data_bytes, total_chunks, device_address, exc, task_records,
                 sendVars, linkVars, reported, extVars, auxVars>>

\* a handler that reports the failure and then falls through to the success
\* report
task_except_falls_through ==
  /\ pc = "raised"
  /\ Len(uiq) < MaxPending
  /\ uiq' = Append(uiq, [cb |-> "failure", err |-> exc])
  /\ pc' = "returned"
  /\ UNCHANGED <<uiVars, widgetVars, task_mode, task_device, data, step_i,
                 data_bytes, total_chunks, device_address, exc, task_records,
                 sendVars, linkVars, reported, extVars, auxVars>>

\* lines 902-908: except Exception as e
task_except ==
  /\ pc = "raised"
  /\ Len(uiq) < MaxPending
  /\ uiq' = Append(uiq, [cb |-> "failure", err |-> exc])
  /\ pc' = "finally"
  /\ UNCHANGED <<uiVars, widgetVars, task_mode, task_device, data, step_i,
                 data_bytes, total_chunks, device_address, exc, task_records,
                 sendVars, linkVars, reported, extVars, auxVars>>

\* a thread that ends without asking for the reset
task_finally_no_reset ==
  /\ pc = "finally"
  /\ pc' = "idle"
  /\ UNCHANGED <<uiVars, widgetVars, uiq, task_mode, task_device, data,
                 step_i, data_bytes, total_chunks, device_address, exc,
                 task_records, sendVars, linkVars, reported, extVars, auxVars>>

\* lines 909-910: finally, and the thread ends
task_finally ==
  /\ pc = "finally"
  /\ Len(uiq) < MaxPending
  /\ uiq' = Append(uiq, [cb |-> "reset"])
  /\ pc' = "idle"
  /\ UNCHANGED <<uiVars, widgetVars, task_mode, task_device, data, step_i,
                 data_bytes, total_chunks, device_address, exc, task_records,
                 sendVars, linkVars, reported, extVars, auxVars>>


(***************************************************************************)
(* send_ble_data.                                                          *)
(***************************************************************************)
\* device_address.startswith("SIM:") or device_address == "00:00:00:00:00"
IsSimulated(address) == address \in SimPrefixed \/ address = ShortZeroAddress

Min(a, b) == IF a < b THEN a ELSE b

\* a slice that stops one byte short
ChunkSliceShort(bytes, i, size) == SubSeq(bytes, i + 1, Min(i + size, Len(bytes)) - 1)

\* data_bytes[i:i+chunk_size]
ChunkSlice(bytes, i, size) == SubSeq(bytes, i + 1, Min(i + size, Len(bytes)))

\* raise Exception(f"BLE transmission failed: {str(e)}")
Wrapped(e) == [text |-> "BLE transmission failed", cause |-> e]

ProgressText(kind) ==
  [text |-> kind, chunk |-> offset \div chunk_size + 1,
   total |-> total_chunks,
   bytes |-> Len(ChunkSlice(data_bytes, offset, chunk_size))]

\* a loop that starts at the second chunk
send_enter_skips_first ==
  /\ pc = "enter"
  /\ pc' = IF IsSimulated(device_address) THEN "sim_loop" ELSE "connect"
  /\ offset' = chunk_size
  /\ UNCHANGED <<uiVars, widgetVars, uiq, task_mode, task_device, data,
                 step_i, data_bytes, total_chunks, device_address, exc,
                 task_records, chunk_size, chunk_delay, chunk_num, chunk_data,
                 linkVars, reported, extVars, auxVars>>

send_enter ==
  /\ pc = "enter"
  /\ pc' = IF IsSimulated(device_address) THEN "sim_loop" ELSE "connect"
  /\ offset' = 0
  /\ UNCHANGED <<uiVars, widgetVars, uiq, task_mode, task_device, data,
                 step_i, data_bytes, total_chunks, device_address, exc,
                 task_records, chunk_size, chunk_delay, chunk_num, chunk_data,
                 linkVars, reported, extVars, auxVars>>

\* lines 918-923: one simulated chunk and its progress text
sim_chunk ==
  /\ pc = "sim_loop"
  /\ offset < Len(data_bytes)
  /\ Len(uiq) < MaxPending
  /\ chunk_num' = offset \div chunk_size + 1
  /\ chunk_data' = ChunkSlice(data_bytes, offset, chunk_size)
  /\ uiq' = Append(uiq, [cb |-> "progress",
                         msg |-> ProgressText("Simulating chunk")])
  /\ sent' = Append(sent, [num |-> chunk_num', bytes |-> chunk_data',
                           at |-> now, sim |-> TRUE])
  /\ pc' = "sim_sleep"
  /\ UNCHANGED <<uiVars, widgetVars, task_mode, task_device, data, step_i,
                 data_bytes, total_chunks, device_address, exc, task_records,
                 chunk_size, chunk_delay, offset, connected, now, fault,
                 failed_chunk, reported, extVars, auxVars>>

\* line 925, and the loop's step
sim_sleep ==
  /\ pc = "sim_sleep"
  /\ now' = now + chunk_delay
  /\ offset' = offset + chunk_size
  /\ pc' = "sim_loop"
  /\ UNCHANGED <<uiVars, widgetVars, uiq, task_mode, task_device, data,
                 step_i, data_bytes, total_chunks, device_address, exc,
                 task_records, chunk_size, chunk_delay, chunk_num, chunk_data,
                 connected, sent, fault, failed_chunk, reported, extVars, auxVars>>

\* line 926
sim_return ==
  /\ pc = "sim_loop"
  /\ offset >= Len(data_bytes)
  /\ pc' = "returned"
  /\ UNCHANGED <<uiVars, widgetVars, uiq, task_mode, task_device, data,
                 step_i, data_bytes, total_chunks, device_address, exc,
                 task_records, sendVars, linkVars, reported, extVars, auxVars>>

\* line 933: the client connects
connect_ok ==
  /\ pc = "connect"
  /\ connected' = TRUE
  /\ pc' = "settle"
  /\ UNCHANGED <<uiVars, widgetVars, uiq, task_mode, task_device, data,
                 step_i, data_bytes, total_chunks, device_address, exc,
                 task_records, sendVars, sent, now, fault, failed_chunk,
                 reported, extVars, auxVars>>

\* line 933: BleakClient raises on entry (device not found, timeout)
connect_raises ==
  /\ pc = "connect"
  /\ \E e \in ConnectErrors : exc' = Wrapped([text |-> e])
  /\ fault' = "connect"
  /\ pc' = "raised"
  /\ UNCHANGED <<uiVars, widgetVars, uiq, task_mode, task_device, data,
                 step_i, data_bytes, total_chunks, device_address,
                 task_records, sendVars, connected, sent, now, failed_chunk,
                 reported, extVars, auxVars>>

\* a client that is not connected and is used all the same
connect_unchecked ==
  /\ pc = "connect"
  /\ fault' = "connect"
  /\ pc' = "settle"
  /\ UNCHANGED <<uiVars, widgetVars, uiq, task_mode, task_device, data,
                 step_i, data_bytes, total_chunks, device_address, exc,
                 task_records, sendVars, connected, sent, now, failed_chunk,
                 reported, extVars, auxVars>>

\* lines 934-935: the client came back without a connection
connect_not_connected ==
  /\ pc = "connect"
  /\ exc' = Wrapped([text |-> "Failed to connect to BLE device"])
  /\ fault' = "connect"
  /\ pc' = "raised"
  /\ UNCHANGED <<uiVars, widgetVars, uiq, task_mode, task_device, data,
                 step_i, data_bytes, total_chunks, device_address,
                 task_records, sendVars, connected, sent, now, failed_chunk,
                 reported, extVars, auxVars>>

\* line 937
settle ==
  /\ pc = "settle"
  /\ now' = now + SETTLE_DELAY
  /\ pc' = "loop"
  /\ UNCHANGED <<uiVars, widgetVars, uiq, task_mode, task_device, data,
                 step_i, data_bytes, total_chunks, device_address, exc,
                 task_records, sendVars, connected, sent, fault, failed_chunk,
                 reported, extVars, auxVars>>

\* lines 939-944: the next chunk and its progress text
next_chunk ==
  /\ pc = "loop"
  /\ offset < Len(data_bytes)
  /\ Len(uiq) < MaxPending
  /\ chunk_num' = offset \div chunk_size + 1
  /\ chunk_data' = ChunkSlice(data_bytes, offset, chunk_size)
  /\ uiq' = Append(uiq, [cb |-> "progress",
                         msg |-> ProgressText("Sending chunk")])
  /\ pc' = "write"
  /\ UNCHANGED <<uiVars, widgetVars, task_mode, task_device, data, step_i,
                 data_bytes, total_chunks, device_address, exc, task_records,
                 chunk_size, chunk_delay, offset, linkVars, reported, extVars, auxVars>>

\* line 947: the write reaches the characteristic
write_ok ==
  /\ pc = "write"
  /\ sent' = Append(sent, [num |-> chunk_num, bytes |-> chunk_data,
                           at |-> now, sim |-> FALSE])
  /\ pc' = "pace"
  /\ UNCHANGED <<uiVars, widgetVars, uiq, task_mode, task_device, data,
                 step_i, data_bytes, total_chunks, device_address, exc,
                 task_records, sendVars, connected, now, fault, failed_chunk,
                 reported, extVars, auxVars>>

\* a write error that is swallowed, the loop going on
write_raises_ignored ==
  /\ pc = "write"
  /\ fault' = "write"
  /\ failed_chunk' = chunk_num
  /\ pc' = "pace"
  /\ UNCHANGED <<uiVars, widgetVars, uiq, task_mode, task_device, data,
                 step_i, data_bytes, total_chunks, device_address, exc,
                 task_records, sendVars, connected, sent, now, reported, extVars, auxVars>>

\* line 947 raises: the client is closed on the way out and lines 952-953
\* re-raise
write_raises ==
  /\ pc = "write"
  /\ \E e \in WriteErrors : exc' = Wrapped([text |-> e])
  /\ fault' = "write"
  /\ failed_chunk' = chunk_num
  /\ connected' = FALSE
  /\ pc' = "raised"
  /\ UNCHANGED <<uiVars, widgetVars, uiq, task_mode, task_device, data,
                 step_i, data_bytes, total_chunks, device_address,
                 task_records, sendVars, sent, now, reported, extVars, auxVars>>

\* a loop step with no sleep in it
pace_no_sleep ==
  /\ pc = "pace"
  /\ offset' = offset + chunk_size
  /\ pc' = "loop"
  /\ UNCHANGED <<uiVars, widgetVars, uiq, task_mode, task_device, data,
                 step_i, data_bytes, total_chunks, device_address, exc,
                 task_records, chunk_size, chunk_delay, chunk_num, chunk_data,
                 linkVars, reported, extVars, auxVars>>

\* line 948, and the loop's step
pace ==
  /\ pc = "pace"
  /\ now' = now + chunk_delay
  /\ offset' = offset + chunk_size
  /\ pc' = "loop"
  /\ UNCHANGED <<uiVars, widgetVars, uiq, task_mode, task_device, data,
                 step_i, data_bytes, total_chunks, device_address, exc,
                 task_records, chunk_size, chunk_delay, chunk_num, chunk_data,
                 connected, sent, fault, failed_chunk, reported, extVars, auxVars>>

\* a return that leaves the client connected
send_return_left_open ==
  /\ pc = "loop"
  /\ offset >= Len(data_bytes)
  /\ now' = now + FINAL_DELAY
  /\ pc' = "returned"
  /\ UNCHANGED <<uiVars, widgetVars, uiq, task_mode, task_device, data,
                 step_i, data_bytes, total_chunks, device_address, exc,
                 task_records, sendVars, connected, sent, fault, failed_chunk,
                 reported, extVars, auxVars>>

\* line 950, the client closed on the way out, and the return
send_return ==
  /\ pc = "loop"
  /\ offset >= Len(data_bytes)
  /\ now' = now + FINAL_DELAY
  /\ connected' = FALSE
  /\ pc' = "returned"
  /\ UNCHANGED <<uiVars, widgetVars, uiq, task_mode, task_device, data,
                 step_i, data_bytes, total_chunks, device_address, exc,
                 task_records, sendVars, sent, fault, failed_chunk, reported, extVars, auxVars>>

(***************************************************************************)
(* The Tk main loop runs the callbacks in the order they were handed over. *)
(***************************************************************************)
cb_status ==
  /\ uiq # <<>>
  /\ Head(uiq).cb = "status"
  /\ status_label' = Head(uiq).text
  /\ uiq' = Tail(uiq)
  /\ UNCHANGED <<uiVars, is_sending, submit_btn, chunk_progress_label,
                 taskVars, sendVars, linkVars, reported, extVars, auxVars>>

cb_progress ==
  /\ uiq # <<>>
  /\ Head(uiq).cb = "progress"
  /\ chunk_progress_label' = Head(uiq).msg
  /\ uiq' = Tail(uiq)
  /\ UNCHANGED <<uiVars, is_sending, submit_btn, status_label, taskVars,
                 sendVars, linkVars, reported, extVars, auxVars>>

\* lines 895-900
cb_success ==
  /\ uiq # <<>>
  /\ Head(uiq).cb = "success"
  /\ status_label' = "Submission successful"
  /\ chunk_progress_label' = [text |-> "All chunks sent successfully"]
  /\ reported' = Append(reported,
                        [kind |-> "success",
                         msg |-> [text |-> "Data successfully sent to",
                                  device |-> Head(uiq).device]])
  /\ uiq' = Tail(uiq)
  /\ UNCHANGED <<uiVars, is_sending, submit_btn, taskVars, sendVars, linkVars,
                 extVars, auxVars>>

\* lines 903-908
cb_failure ==
  /\ uiq # <<>>
  /\ Head(uiq).cb = "failure"
  /\ status_label' = "Submission failed"
  /\ chunk_progress_label' = [text |-> "Transmission interrupted"]
  /\ reported' = Append(reported,
                        [kind |-> "failure",
                         msg |-> [text |-> "Failed to submit",
                                  cause |-> Head(uiq).err]])
  /\ uiq' = Tail(uiq)
  /\ UNCHANGED <<uiVars, is_sending, submit_btn, taskVars, sendVars, linkVars,
                 extVars, auxVars>>

\* lines 1087-1092; the thread that scheduled it has ended, and the history
\* of its submission ends here
reset_submit_button ==
  /\ uiq # <<>>
  /\ Head(uiq).cb = "reset"
  /\ is_sending' = FALSE
  /\ submit_btn' = "normal"
  /\ chunk_progress_label' = NoText
  /\ uiq' = Tail(uiq)
  /\ data' = EmptyText
  /\ step_i' = 0
  /\ data_bytes' = <<>>
  /\ total_chunks' = 0
  /\ device_address' = ""
  /\ exc' = NoExc
  /\ task_records' = <<>>
  /\ offset' = 0
  /\ chunk_num' = 0
  /\ chunk_data' = <<>>
  /\ sent' = <<>>
  /\ now' = 0
  /\ fault' = "none"
  /\ failed_chunk' = 0
  /\ reported' = <<>>
  /\ confirmed_records' = <<>>
  /\ UNCHANGED <<cancel_at, acks, line, parsed, last_scan,
                 docVars, listVars, file_var, selected_ble_device, last_message>>
  /\ UNCHANGED <<uiVars, status_label, pc, task_mode, task_device,
                 chunk_size, chunk_delay, connected>>

(***************************************************************************)
(* Specifications.                                                         *)
(***************************************************************************)
\* the manual entry form
(***************************************************************************)
(* The prescription builder: is_valid_time and parse_line.                 *)
(***************************************************************************)
\* TIME_RE = ^([01]?\d|2[0-3]):[0-5]\d$ matched against a stripped token
is_valid_time(t) ==
  \/ /\ Len(t) = 4
     /\ IsDigit(t[1])
     /\ t[2] = ":"
     /\ t[3] \in {"0", "1", "2", "3", "4", "5"}
     /\ IsDigit(t[4])
  \/ /\ Len(t) = 5
     /\ \/ t[1] \in {"0", "1"} /\ IsDigit(t[2])
        \/ t[1] = "2" /\ t[2] \in {"0", "1", "2", "3"}
     /\ t[3] = ":"
     /\ t[4] \in {"0", "1", "2", "3", "4", "5"}
     /\ IsDigit(t[5])

\* tokens with every token stripped
StripAll(tokens) == [k \in 1..Len(tokens) |-> Strip(tokens[k])]

\* while tokens and tokens[-1] == "": tokens.pop()
RECURSIVE DropTrailingEmpty(_)
DropTrailingEmpty(tokens) ==
  IF tokens # <<>> /\ tokens[Len(tokens)] = <<>>
  THEN DropTrailingEmpty(SubSeq(tokens, 1, Len(tokens) - 1))
  ELSE tokens

ParseError(msg) == [kind |-> "error", msg |-> msg]

\* lines 94-109: the loop over the tokens after dosage1; i counts from 1
RECURSIVE ParseSchedule(_, _, _, _)
ParseSchedule(tokens, i, d1_int, schedules) ==
  IF i > Len(tokens) THEN [kind |-> "ok", schedules |-> schedules]
  ELSE
    LET t == Strip(tokens[i])
    IN IF ~is_valid_time(t) THEN ParseError("Expected time at position")
       ELSE IF i + 1 <= Len(tokens) /\ Strip(tokens[i + 1]) # <<>>
       THEN IF IsPyInt(tokens[i + 1])
            THEN ParseSchedule(tokens, i + 2, d1_int,
                   Append(schedules,
                          [time |-> t, dosage |-> PyInt(tokens[i + 1])]))
            ELSE ParseError("Invalid dosage after time")
       ELSE ParseSchedule(tokens, i + 1, d1_int,
              Append(schedules, [time |-> t, dosage |-> d1_int]))

\* lines 56-122
parse_line(text) ==
  LET raw == Strip(text)
      tokens == DropTrailingEmpty(StripAll(Split(raw, "|")))
  IN IF raw = <<>> THEN ParseError("Empty line")
     ELSE IF Len(tokens) < 4 THEN ParseError("Need at least Name|Amount|time1|dosage1")
     ELSE IF tokens[1] = <<>> THEN ParseError("Name cannot be empty")
     ELSE IF ~IsPyInt(tokens[2]) THEN ParseError("Amount must be an integer")
     ELSE IF ~is_valid_time(tokens[3]) THEN ParseError("Invalid time1")
     ELSE IF ~IsPyInt(tokens[4]) THEN ParseError("Invalid dosage1")
     ELSE LET rest == ParseSchedule(tokens, 5, PyInt(tokens[4]),
                        <<[time |-> tokens[3], dosage |-> PyInt(tokens[4])]>>)
          IN IF rest.kind = "error" THEN rest
             ELSE [kind |-> "ok", name |-> tokens[1],
                   amount |-> PyInt(tokens[2]),
                   schedules |-> rest.schedules,
                   normalized_line |-> raw]

\* the prescription lines tried: a head of four tokens, right or wrong in one
\* place, and up to MaxTail further tokens
NameA == <<"A">>
T0800 == <<"0", "8", ":", "0", "0">>
T1200 == <<"1", "2", ":", "0", "0">>
T800 == <<"8", ":", "0", "0">>
Dose2 == <<"2">>
Dose3 == <<"3">>
NotInt == <<"x">>

LineHeads ==
  { <<NameA, Amount5, T0800, Dose2>>,
    <<NameA, Amount5, T800, Dose2>>,
    <<EmptyText, Amount5, T0800, Dose2>>,
    <<NameA, NotInt, T0800, Dose2>>,
    <<NameA, Amount5, T2500, Dose2>>,
    <<NameA, Amount5, T0800, NotInt>>,
    <<NameA, Amount5, T0800>>,
    <<>> }

TailTokens == {T1200, T0900, Dose3, EmptyText, NotInt}

LineTails == UNION {[1..n -> TailTokens] : n \in 0..MaxTail}

\* "|".join(tokens)
RECURSIVE JoinBar(_)
JoinBar(tokens) ==
  IF tokens = <<>> THEN <<>>
  ELSE IF Len(tokens) = 1 THEN tokens[1]
  ELSE tokens[1] \o <<"|">> \o JoinBar(Tail(tokens))

Lines == {JoinBar(h \o t) : h \in LineHeads, t \in LineTails}

\* parse_multiline hands each non-blank line of the text box to parse_line
call_parse_line ==
  /\ parsed = NotParsed
  /\ parsed' = parse_line(line)
  /\ UNCHANGED <<uiVars, widgetVars, uiq, taskVars, sendVars, linkVars,
                 reported, confirmed_records, cancel_at, acks, line,
                 last_scan, auxVars>>

(***************************************************************************)
(* The prescription builder: parse_multiline, generate_images and the      *)
(* part of generate_page that decides about the QR code.                   *)
(***************************************************************************)
\* text.replace("\r\n", "\n").replace("\r", "\n")
IsKept(c) == c # "dropped"

NormalizeNewlines(t) ==
  SelectSeq([k \in 1..Len(t) |->
               IF t[k] = "\r" THEN "\n"
               ELSE IF t[k] = "\n" /\ k > 1 /\ t[k - 1] = "\r" THEN "dropped"
               ELSE t[k]],
            IsKept)

IsNonBlank(ln) == Strip(ln) # <<>>

\* [ln for ln in text.split("\n") if ln.strip()]
NonBlankLines(t) == SelectSeq(Split(NormalizeNewlines(t), "\n"), IsNonBlank)

\* a loop that leaves out the lines parse_line refuses
RECURSIVE ParseLinesSkipping(_, _, _)
ParseLinesSkipping(lines, idx, meds) ==
  IF idx > Len(lines) THEN [kind |-> "ok", meds |-> meds]
  ELSE LET rec == parse_line(lines[idx])
       IN IF rec.kind = "error"
          THEN ParseLinesSkipping(lines, idx + 1, meds)
          ELSE ParseLinesSkipping(lines, idx + 1, Append(meds, rec))

\* the loop of lines 132-138: stops at the first line parse_line refuses
RECURSIVE ParseLines(_, _, _)
ParseLines(lines, idx, meds) ==
  IF idx > Len(lines) THEN [kind |-> "ok", meds |-> meds]
  ELSE LET rec == parse_line(lines[idx])
       IN IF rec.kind = "error"
          THEN [kind |-> "error", idx |-> idx, msg |-> rec.msg]
          ELSE ParseLines(lines, idx + 1, Append(meds, rec))

\* lines 125-140
parse_multiline(t) ==
  LET lines == NonBlankLines(t)
      r == ParseLines(lines, 1, <<>>)
  IN IF r.kind = "error" THEN r
     ELSE [kind |-> "ok", meds |-> r.meds,
           qr_payload |->
             JoinWith([k \in 1..Len(r.meds) |-> r.meds[k].normalized_line],
                      <<"\n">>)]

\* math.ceil(n / MEDS_PER_PAGE) for a list length n
TotalPages(n) ==
  IF n % MEDS_PER_PAGE = 0 THEN n \div MEDS_PER_PAGE
  ELSE n \div MEDS_PER_PAGE + 1

\* generate_page, lines 233-355: the rows it draws and what it puts in the
\* place of the QR code (the code, the notice that the qrcode package is
\* missing, or nothing)
generate_page(page_meds, qr_payload, page_num, total_pages, qrcode) ==
  [meds |-> page_meds, page_num |-> page_num, total_pages |-> total_pages,
   qr |-> IF page_num = total_pages
          THEN IF qrcode THEN [kind |-> "code", data |-> qr_payload]
               ELSE [kind |-> "notice"]
          ELSE [kind |-> "none"]]

\* a split that puts one medication too few on every page
PageSliceShort(meds, page_num) ==
  LET start_idx == (page_num - 1) * MEDS_PER_PAGE
      end_idx == Min(start_idx + MEDS_PER_PAGE, Len(meds))
  IN SubSeq(meds, start_idx + 1, end_idx - 1)

\* meds[start_idx:end_idx] of lines 370-372
PageSlice(meds, page_num) ==
  LET start_idx == (page_num - 1) * MEDS_PER_PAGE
      end_idx == Min(start_idx + MEDS_PER_PAGE, Len(meds))
  IN SubSeq(meds, start_idx + 1, end_idx)

\* lines 358-377
generate_images(t, qrcode) ==
  LET r == parse_multiline(t)
  IN IF r.kind = "error" THEN r
     ELSE IF r.meds = <<>>
     THEN [kind |-> "error", idx |-> 0, msg |-> "No valid medications found"]
     ELSE LET total_pages == TotalPages(Len(r.meds))
          IN [kind |-> "ok",
              pages |-> [page_num \in 1..total_pages |->
                           generate_page(PageSlice(r.meds, page_num),
                                         r.qr_payload, page_num, total_pages,
                                         qrcode)]]

\* the text boxes tried: up to MaxLines lines, right, padded, blank or wrong,
\* separated by "\n" or "\r\n"; and up to MaxMeds right lines that differ in
\* their amounts
LineA == JoinBar(<<NameA, Amount5, T0800, Dose2>>)
LineB == JoinBar(<<<<"B">>, <<"1">>, T0900, Dose3, T1200>>)
LinePadded == <<" ">> \o LineA \o <<" ">>
LineBlank == <<" ">>
LineWrong == JoinBar(<<NameA, NotInt, T0800, Dose2>>)

DocLines == {LineA, LineB, LinePadded, LineBlank, EmptyText, LineWrong}

NewLines == {<<"\n">>, <<"\r", "\n">>}

ShortTexts ==
  {JoinWith(ls, sep) :
     ls \in UNION {[1..n -> DocLines] : n \in 0..MaxLines}, sep \in NewLines}

NumberedLine(k) == JoinBar(<<NameA, IntStr(k), T0800, Dose2>>)

LongTexts ==
  {JoinWith([k \in 1..n |-> NumberedLine(k)], <<"\n">>) : n \in 0..MaxMeds}

Texts == ShortTexts \cup LongTexts

\* generate_images hands the content of the text box to parse_multiline
call_parse_multiline ==
  /\ multi = NotParsed
  /\ multi' = parse_multiline(prescription_text)
  /\ UNCHANGED <<uiVars, widgetVars, uiq, taskVars, sendVars, linkVars,
                 reported, extVars, prescription_text, pages, listVars,
                 file_var, selected_ble_device, last_message>>

\* _try_generate, lines 465-478; the qrcode package is installed or not
call_generate_images(qrcode) ==
  /\ pages = NotParsed
  /\ pages' = generate_images(prescription_text, qrcode)
  /\ UNCHANGED <<uiVars, widgetVars, uiq, taskVars, sendVars, linkVars,
                 reported, extVars, prescription_text, multi, listVars,
                 file_var, selected_ble_device, last_message>>

DocNext ==
  \/ call_parse_multiline
  \/ \E qrcode \in BOOLEAN : call_generate_images(qrcode)

(***************************************************************************)
(* Cancellation. The session of the specification has a caller-visible     *)
(* flag; the window has no control that sets one and send_ble_data reads   *)
(* none, so the operator's request changes nothing the program looks at.   *)
(***************************************************************************)
\* send_ble_data is running
SessionActive ==
  pc \in {"enter", "sim_loop", "sim_sleep", "connect", "settle", "loop",
          "write", "pace"}

request_cancel ==
  /\ SessionActive
  /\ cancel_at = -1
  /\ cancel_at' = Len(sent)
  /\ UNCHANGED <<uiVars, widgetVars, uiq, taskVars, sendVars, linkVars,
                 reported, confirmed_records, acks, line, parsed, last_scan, auxVars>>


(***************************************************************************)
(* The transfer session over an acknowledged byte-stream transport, as the *)
(* specification describes it (4.3, 4.4): connect, then for each chunk a   *)
(* look at the cancellation flag, the send and the wait for one            *)
(* acknowledgment byte, then the final settle and the disconnect. Its      *)
(* delays are not modelled.                                                *)
(***************************************************************************)
\* what await_ack can read: the acknowledgment byte, any other byte, or
\* nothing before the timeout
AckReplies == {"ack", "other", "timeout"}

AckSessionActive == pc \in {"a_connect", "a_next", "a_send", "a_await"}

ack_request_cancel ==
  /\ AckSessionActive
  /\ cancel_at = -1
  /\ cancel_at' = Len(sent)
  /\ UNCHANGED <<uiVars, widgetVars, uiq, taskVars, sendVars, linkVars,
                 reported, confirmed_records, acks, line, parsed, last_scan, auxVars>>

\* Connecting: the link opens
ack_connect_ok ==
  /\ pc = "a_connect"
  /\ connected' = TRUE
  /\ pc' = "a_next"
  /\ UNCHANGED <<uiVars, widgetVars, uiq, task_mode, task_device, data,
                 step_i, data_bytes, total_chunks, device_address, exc,
                 task_records, sendVars, sent, now, fault, failed_chunk,
                 reported, extVars, auxVars>>

\* Connecting: the link cannot be opened -> Failed with ConnectError
ack_connect_fails ==
  /\ pc = "a_connect"
  /\ fault' = "connect"
  /\ pc' = "failed"
  /\ UNCHANGED <<uiVars, widgetVars, uiq, task_mode, task_device, data,
                 step_i, data_bytes, total_chunks, device_address, exc,
                 task_records, sendVars, connected, sent, now, failed_chunk,
                 reported, extVars, auxVars>>

\* the flag is set when a chunk is about to start -> Failed with Cancelled,
\* after disconnect
ack_cancelled ==
  /\ pc = "a_next"
  /\ cancel_at >= 0
  /\ fault' = "cancelled"
  /\ connected' = FALSE
  /\ pc' = "failed"
  /\ UNCHANGED <<uiVars, widgetVars, uiq, task_mode, task_device, data,
                 step_i, data_bytes, total_chunks, device_address, exc,
                 task_records, sendVars, sent, now, failed_chunk,
                 reported, extVars, auxVars>>

\* SendingChunk(i) starts
ack_next_chunk ==
  /\ pc = "a_next"
  /\ cancel_at = -1
  /\ offset < Len(data_bytes)
  /\ chunk_num' = offset \div chunk_size + 1
  /\ chunk_data' = ChunkSlice(data_bytes, offset, chunk_size)
  /\ pc' = "a_send"
  /\ UNCHANGED <<uiVars, widgetVars, uiq, task_mode, task_device, data,
                 step_i, data_bytes, total_chunks, device_address, exc,
                 task_records, chunk_size, chunk_delay, offset, linkVars,
                 reported, extVars, auxVars>>

\* the last chunk was acknowledged -> Complete, after disconnect
ack_complete ==
  /\ pc = "a_next"
  /\ cancel_at = -1
  /\ offset >= Len(data_bytes)
  /\ connected' = FALSE
  /\ pc' = "complete"
  /\ UNCHANGED <<uiVars, widgetVars, uiq, task_mode, task_device, data,
                 step_i, data_bytes, total_chunks, device_address, exc,
                 task_records, sendVars, sent, now, fault, failed_chunk,
                 reported, extVars, auxVars>>

\* SendingChunk(i): the bytes are written and flushed
ack_send_ok ==
  /\ pc = "a_send"
  /\ sent' = Append(sent, [num |-> chunk_num, bytes |-> chunk_data,
                           at |-> now, sim |-> FALSE])
  /\ pc' = "a_await"
  /\ UNCHANGED <<uiVars, widgetVars, uiq, task_mode, task_device, data,
                 step_i, data_bytes, total_chunks, device_address, exc,
                 task_records, sendVars, connected, now, fault, failed_chunk,
                 reported, extVars, auxVars>>

\* SendingChunk(i): I/O error -> Failed with TransmitError{chunk=i}
ack_send_raises ==
  /\ pc = "a_send"
  /\ fault' = "write"
  /\ failed_chunk' = chunk_num
  /\ connected' = FALSE
  /\ pc' = "failed"
  /\ UNCHANGED <<uiVars, widgetVars, uiq, task_mode, task_device, data,
                 step_i, data_bytes, total_chunks, device_address, exc,
                 task_records, sendVars, sent, now, reported, extVars, auxVars>>

\* an await that takes whatever byte comes for the acknowledgment
ack_await_any(reply) ==
  /\ pc = "a_await"
  /\ acks' = Append(acks, reply)
  /\ offset' = offset + chunk_size
  /\ pc' = "a_next"
  /\ UNCHANGED <<fault, failed_chunk, connected>>
  /\ UNCHANGED <<uiVars, widgetVars, uiq, task_mode, task_device, data,
                 step_i, data_bytes, total_chunks, device_address, exc,
                 task_records, chunk_size, chunk_delay, chunk_num, chunk_data,
                 sent, now, reported, confirmed_records, cancel_at, line,
                 parsed, last_scan, auxVars>>

\* AwaitingAck(i): the acknowledgment byte lets the session advance; anything
\* else -> Failed with AckError{chunk=i}, no retry
ack_await(reply) ==
  /\ pc = "a_await"
  /\ acks' = Append(acks, reply)
  /\ IF reply = "ack"
     THEN /\ offset' = offset + chunk_size
          /\ pc' = "a_next"
          /\ UNCHANGED <<fault, failed_chunk, connected>>
     ELSE /\ fault' = "ack"
          /\ failed_chunk' = chunk_num
          /\ connected' = FALSE
          /\ pc' = "failed"
          /\ UNCHANGED offset
  /\ UNCHANGED <<uiVars, widgetVars, uiq, task_mode, task_device, data,
                 step_i, data_bytes, total_chunks, device_address, exc,
                 task_records, chunk_size, chunk_delay, chunk_num, chunk_data,
                 sent, now, reported, confirmed_records, cancel_at, line,
                 parsed, last_scan, auxVars>>

AckAction ==
  \/ ack_request_cancel
  \/ ack_connect_ok
  \/ ack_connect_fails
  \/ ack_cancelled
  \/ ack_next_chunk
  \/ ack_complete
  \/ ack_send_ok
  \/ ack_send_raises
  \/ \E reply \in AckReplies : ack_await(reply)


EditAction ==
  \/ \E t \in TimeInputs, d \in DosageInputs : add_schedule(t, d)
  \/ \E k \in 1..MaxDoses : remove_schedule(k)
  \/ \E tube \in TubeInputs, ty \in TypeInputs, a \in AmountInputs,
        r \in BOOLEAN : save_medication(tube, ty, a, r)
  \/ clear_medication_form
  \/ \E k \in 1..Cardinality(TubeInputs) : remove_manual_medication(k)

\* the handlers that touch what a submission reads
UserAction ==
  \/ \E mode \in Modes : switch_mode(mode)
  \/ \E file \in JsonFiles : process_json_file(file)
  \/ use_manual_data
  \/ clear_data
  \/ reset_app
  \/ refresh_ble_devices
  \/ \E name \in DeviceNames : set_ble_var(name)
  \/ \E confirm \in BOOLEAN : submit_data(confirm)

TaskAction ==
  \/ task_encode
  \/ task_step
  \/ task_prepare
  \/ task_success
  \/ task_except
  \/ task_finally

SendAction ==
  \/ send_enter
  \/ sim_chunk
  \/ sim_sleep
  \/ sim_return
  \/ connect_ok
  \/ connect_raises
  \/ connect_not_connected
  \/ settle
  \/ next_chunk
  \/ write_ok
  \/ write_raises
  \/ pace
  \/ send_return

CallbackAction ==
  \/ cb_status
  \/ cb_progress
  \/ cb_success
  \/ cb_failure
  \/ reset_submit_button

Next == UserAction \/ TaskAction \/ SendAction \/ CallbackAction

\* The application from construction on, the manual list being one the form
\* has produced (EditSpec builds it): the form's own handlers touch nothing a
\* submission reads and are left to EditSpec.
ManualLists == {<<>>, <<GoodRecord>>}

SpecInit == \E manual \in ManualLists : InitWith(manual)

Spec == SpecInit /\ [][Next]_vars

\* The application with a medication file loaded, the scan of construction
\* (line 296) and every later one spelled out
ScanInit ==
  /\ upload_mode = "json"
  /\ medication_data = <<GoodRecord>>
  /\ qr_data = EmptyText
  /\ manual_medications = <<>>
  /\ current_med_schedules = <<>>
  /\ ble_var = ""
  /\ \E env \in ScanEnvs :
       /\ ble_devices = get_ble_devices(env).value
       /\ last_scan = [env |-> env, result |-> get_ble_devices(env)]
  /\ is_sending = FALSE
  /\ prescription_text = EmptyText
  /\ multi = NotParsed
  /\ pages = NotParsed
  /\ schedule_listbox = <<>>
  /\ manual_listbox = <<>>
  /\ file_var = ""
  /\ selected_ble_device = NoDevice
  /\ last_message = ""
  /\ submit_btn = "normal"
  /\ status_label = "Ready for configuration"
  /\ chunk_progress_label = NoText
  /\ uiq = <<>>
  /\ pc = "idle"
  /\ task_mode = "json"
  /\ task_device = ""
  /\ data = EmptyText
  /\ step_i = 0
  /\ data_bytes = <<>>
  /\ total_chunks = 0
  /\ device_address = ""
  /\ exc = NoExc
  /\ chunk_size = CHUNK_SIZE
  /\ chunk_delay = CHUNK_DELAY
  /\ offset = 0
  /\ chunk_num = 0
  /\ chunk_data = <<>>
  /\ connected = FALSE
  /\ task_records = <<>>
  /\ sent = <<>>
  /\ now = 0
  /\ fault = "none"
  /\ failed_chunk = 0
  /\ reported = <<>>
  /\ confirmed_records = <<>>
  /\ cancel_at = -1
  /\ acks = <<>>
  /\ line = EmptyText
  /\ parsed = NotParsed

ScanNext ==
  \/ \E env \in ScanEnvs : refresh_from_scan(env)
  \/ \E name \in ScanNames : set_ble_var(name)
  \/ \E confirm \in BOOLEAN : submit_data(confirm)
  \/ TaskAction
  \/ SendAction
  \/ CallbackAction

ScanSpec == ScanInit /\ [][ScanNext]_vars

\* parse_line on its own, over the lines above
ParseInit ==
  /\ upload_mode = "json"
  /\ medication_data = <<>>
  /\ qr_data = EmptyText
  /\ manual_medications = <<>>
  /\ current_med_schedules = <<>>
  /\ ble_var = ""
  /\ ble_devices \in DiscoveryResults
  /\ is_sending = FALSE
  /\ submit_btn = "normal"
  /\ status_label = "Ready for configuration"
  /\ chunk_progress_label = NoText
  /\ uiq = <<>>
  /\ pc = "idle"
  /\ task_mode = "json"
  /\ task_device = ""
  /\ data = EmptyText
  /\ step_i = 0
  /\ data_bytes = <<>>
  /\ total_chunks = 0
  /\ device_address = ""
  /\ exc = NoExc
  /\ chunk_size = CHUNK_SIZE
  /\ chunk_delay = CHUNK_DELAY
  /\ offset = 0
  /\ chunk_num = 0
  /\ chunk_data = <<>>
  /\ connected = FALSE
  /\ task_records = <<>>
  /\ sent = <<>>
  /\ now = 0
  /\ fault = "none"
  /\ failed_chunk = 0
  /\ reported = <<>>
  /\ confirmed_records = <<>>
  /\ cancel_at = -1
  /\ acks = <<>>
  /\ line \in Lines
  /\ parsed = NotParsed
  /\ last_scan = NoScan
  /\ prescription_text = EmptyText
  /\ multi = NotParsed
  /\ pages = NotParsed
  /\ schedule_listbox = <<>>
  /\ manual_listbox = <<>>
  /\ file_var = ""
  /\ selected_ble_device = NoDevice
  /\ last_message = ""

ParseSpec == ParseInit /\ [][call_parse_line]_vars

\* parse_multiline and generate_images on their own, over the texts above
DocInit ==
  /\ upload_mode = "json"
  /\ medication_data = <<>>
  /\ qr_data = EmptyText
  /\ manual_medications = <<>>
  /\ current_med_schedules = <<>>
  /\ ble_var = ""
  /\ ble_devices = [n \in {"PillBox"} |-> RealAddress]
  /\ is_sending = FALSE
  /\ submit_btn = "normal"
  /\ status_label = "Ready for configuration"
  /\ chunk_progress_label = NoText
  /\ uiq = <<>>
  /\ pc = "idle"
  /\ task_mode = "json"
  /\ task_device = ""
  /\ data = EmptyText
  /\ step_i = 0
  /\ data_bytes = <<>>
  /\ total_chunks = 0
  /\ device_address = ""
  /\ exc = NoExc
  /\ chunk_size = CHUNK_SIZE
  /\ chunk_delay = CHUNK_DELAY
  /\ offset = 0
  /\ chunk_num = 0
  /\ chunk_data = <<>>
  /\ connected = FALSE
  /\ task_records = <<>>
  /\ sent = <<>>
  /\ now = 0
  /\ fault = "none"
  /\ failed_chunk = 0
  /\ reported = <<>>
  /\ confirmed_records = <<>>
  /\ cancel_at = -1
  /\ acks = <<>>
  /\ line = EmptyText
  /\ parsed = NotParsed
  /\ last_scan = NoScan
  /\ prescription_text \in Texts
  /\ multi = NotParsed
  /\ pages = NotParsed
  /\ schedule_listbox = <<>>
  /\ manual_listbox = <<>>
  /\ file_var = ""
  /\ selected_ble_device = NoDevice
  /\ last_message = ""

DocSpec == DocInit /\ [][DocNext]_vars

\* the window after a submission has failed, the failure has been shown and
\* reset_submit_button has run, and the submissions made from there
RetryInit ==
  /\ upload_mode = "json"
  /\ medication_data \in {<<GoodRecord>>, <<BadRecord>>}
  /\ qr_data = EmptyText
  /\ manual_medications = <<>>
  /\ current_med_schedules = <<>>
  /\ ble_var \in DeviceNames
  /\ ble_devices \in DiscoveryResults
  /\ is_sending = FALSE
  /\ submit_btn = "normal"
  /\ status_label = "Submission failed"
  /\ chunk_progress_label = NoText
  /\ uiq = <<>>
  /\ pc = "idle"
  /\ task_mode = "json"
  /\ task_device \in DeviceNames
  /\ data = EmptyText
  /\ step_i = 0
  /\ data_bytes = <<>>
  /\ total_chunks = 0
  /\ device_address = ""
  /\ exc = NoExc
  /\ chunk_size = CHUNK_SIZE
  /\ chunk_delay = CHUNK_DELAY
  /\ offset = 0
  /\ chunk_num = 0
  /\ chunk_data = <<>>
  /\ connected = FALSE
  /\ task_records = <<>>
  /\ sent = <<>>
  /\ now = 0
  /\ fault = "none"
  /\ failed_chunk = 0
  /\ reported = <<>>
  /\ confirmed_records = <<>>
  /\ cancel_at = -1
  /\ acks = <<>>
  /\ line = EmptyText
  /\ parsed = NotParsed
  /\ last_scan = NoScan
  /\ prescription_text = EmptyText
  /\ multi = NotParsed
  /\ pages = NotParsed
  /\ schedule_listbox = <<>>
  /\ manual_listbox = <<>>
  /\ file_var = "meds.json"
  /\ selected_ble_device = NoDevice
  /\ last_message = ""

RetryNext ==
  \/ \E confirm \in BOOLEAN : submit_data(confirm)
  \/ TaskAction
  \/ SendAction
  \/ CallbackAction

RetrySpec == RetryInit /\ [][RetryNext]_vars

\* RetrySpec under fair scheduling: the thread of submit_task runs whenever it
\* can (threading.Thread, line 912), every awaited BLE operation and sleep of
\* send_ble_data returns or raises, and the Tk main loop runs the callbacks
\* handed to app.after (app.mainloop, line 1140). The operator is not obliged
\* to do anything.
FairSpec ==
  /\ RetrySpec
  /\ WF_vars(TaskAction)
  /\ WF_vars(SendAction)
  /\ WF_vars(CallbackAction)

\* loading and encoding on their own, over more files: the thread is followed
\* up to the payload text
LoadNext ==
  \/ \E file \in LoadFiles : process_json_file(file)
  \/ clear_data
  \/ \E name \in DeviceNames : set_ble_var(name)
  \/ \E confirm \in BOOLEAN : submit_data(confirm)
  \/ task_encode

LoadSpec == Init /\ [][LoadNext]_vars

\* the window as the sources build it, where nothing gives ble_var a device
\* name: the device list, the data and the submit button
SelectNext ==
  \/ refresh_ble_devices
  \/ \E name \in DeviceNames \cup {""} : on_device_select(name)
  \/ \E file \in JsonFiles : process_json_file(file)
  \/ \E mode \in Modes : switch_mode(mode)
  \/ \E confirm \in BOOLEAN : submit_data(confirm)
  \/ clear_data
  \/ reset_app

SelectSpec == Init /\ [][SelectNext]_vars

\* the manual entry form on its own
EditNext == EditAction \/ use_manual_data \/ clear_data

EditSpec == Init /\ [][EditNext]_vars

\* The medication form and the two list widgets alone: the handlers that
\* change current_med_schedules or manual_medications
ListNext == EditAction \/ clear_data

ListSpec == Init /\ [][ListNext]_vars

\* send_ble_data called on its own: any byte string over two byte values, any
\* chunk size, the chunk count worked out as submit_task does
ByteStrings == UNION {[1..n -> {65, 66}] : n \in 0..MaxLen}

SendAddresses == {RealAddress, SimErrorAddress, ShortZeroAddress}

SendInit ==
  /\ upload_mode = "json"
  /\ medication_data = <<>>
  /\ qr_data = EmptyText
  /\ manual_medications = <<>>
  /\ current_med_schedules = <<>>
  /\ ble_var = ""
  /\ ble_devices \in DiscoveryResults
  /\ is_sending = FALSE
  /\ submit_btn = "normal"
  /\ status_label = "Ready for configuration"
  /\ chunk_progress_label = NoText
  /\ uiq = <<>>
  /\ pc = "enter"
  /\ task_mode = "json"
  /\ task_device = ""
  /\ data = EmptyText
  /\ step_i = 0
  /\ data_bytes \in ByteStrings
  /\ chunk_size \in 1..MaxChunk
  /\ total_chunks = TotalChunks(Len(data_bytes), chunk_size)
  /\ device_address \in SendAddresses
  /\ exc = NoExc
  /\ chunk_delay = CHUNK_DELAY
  /\ offset = 0
  /\ chunk_num = 0
  /\ chunk_data = <<>>
  /\ connected = FALSE
  /\ task_records = <<>>
  /\ sent = <<>>
  /\ now = 0
  /\ fault = "none"
  /\ failed_chunk = 0
  /\ reported = <<>>
  /\ confirmed_records = <<>>
  /\ cancel_at = -1
  /\ acks = <<>>
  /\ line = EmptyText
  /\ parsed = NotParsed
  /\ last_scan = NoScan
  /\ prescription_text = EmptyText
  /\ multi = NotParsed
  /\ pages = NotParsed
  /\ schedule_listbox = <<>>
  /\ manual_listbox = <<>>
  /\ file_var = ""
  /\ selected_ble_device = NoDevice
  /\ last_message = ""

SendNext == SendAction \/ cb_progress

SendSpec == SendInit /\ [][SendNext]_vars

\* the acknowledged session on its own, over the same payloads and chunk sizes
AckInit ==
  /\ upload_mode = "json"
  /\ medication_data = <<>>
  /\ qr_data = EmptyText
  /\ manual_medications = <<>>
  /\ current_med_schedules = <<>>
  /\ ble_var = ""
  /\ ble_devices \in DiscoveryResults
  /\ is_sending = FALSE
  /\ submit_btn = "normal"
  /\ status_label = "Ready for configuration"
  /\ chunk_progress_label = NoText
  /\ uiq = <<>>
  /\ pc = "a_connect"
  /\ task_mode = "json"
  /\ task_device = ""
  /\ data = EmptyText
  /\ step_i = 0
  /\ data_bytes \in ByteStrings
  /\ chunk_size \in 1..MaxChunk
  /\ total_chunks = TotalChunks(Len(data_bytes), chunk_size)
  /\ device_address = ""
  /\ exc = NoExc
  /\ chunk_delay = CHUNK_DELAY
  /\ offset = 0
  /\ chunk_num = 0
  /\ chunk_data = <<>>
  /\ connected = FALSE
  /\ task_records = <<>>
  /\ sent = <<>>
  /\ now = 0
  /\ fault = "none"
  /\ failed_chunk = 0
  /\ reported = <<>>
  /\ confirmed_records = <<>>
  /\ cancel_at = -1
  /\ acks = <<>>
  /\ line = EmptyText
  /\ parsed = NotParsed
  /\ last_scan = NoScan
  /\ prescription_text = EmptyText
  /\ multi = NotParsed
  /\ pages = NotParsed
  /\ schedule_listbox = <<>>
  /\ manual_listbox = <<>>
  /\ file_var = ""
  /\ selected_ble_device = NoDevice
  /\ last_message = ""

AckSpec == AckInit /\ [][AckAction]_vars

\* send_ble_data with an operator who may ask for the transfer to stop
CancelNext == SendNext \/ request_cancel

CancelSpec == SendInit /\ [][CancelNext]_vars


(***************************************************************************)
(* Properties.                                                             *)
(***************************************************************************)
\* the bytes of the chunks sent so far, in send order
SentBytes == Concat([k \in 1..Len(sent) |-> sent[k].bytes])

IsPrefix(p, s) == Len(p) <= Len(s) /\ SubSeq(s, 1, Len(p)) = p

IsSuffix(p, s) == Len(p) <= Len(s) /\ SubSeq(s, Len(s) - Len(p) + 1, Len(s)) = p

\* the least n with n * size >= length
Ceil(length, size) ==
  CHOOSE n \in 0..length : n * size >= length /\ (n = 0 \/ (n - 1) * size < length)

\* send_ble_data has gone through its loop and returned
Returned == pc = "returned"

\* C1: at every moment the chunks sent so far, concatenated in send order, are
\* the leading bytes of the payload, and once send_ble_data has returned they
\* are the whole payload: nothing missing, duplicated or reordered.
C1_RoundTrip ==
  /\ IsPrefix(SentBytes, data_bytes)
  /\ Returned => SentBytes = data_bytes

\* C1 witness: a real transfer of several chunks, the last one short, is over
C1_Witness ==
  /\ Returned
  /\ Len(sent) >= 2
  /\ ~sent[1].sim
  /\ Len(sent[Len(sent)].bytes) < chunk_size
  /\ \E j, k \in 1..Len(data_bytes) : data_bytes[j] # data_bytes[k]

\* C2: chunk numbers run 1, 2, ... without gaps and never exceed total_chunks;
\* a returned send_ble_data has sent exactly ceil(L/C) = total_chunks chunks,
\* each of C bytes but the last, which has 1..C bytes; an empty payload gives
\* no chunk.
C2_ChunkCount ==
  /\ \A k \in 1..Len(sent) : sent[k].num = k /\ k <= total_chunks
  /\ Returned =>
       /\ Len(sent) = Ceil(Len(data_bytes), chunk_size)
       /\ Len(sent) = total_chunks
       /\ \A k \in 1..(Len(sent) - 1) : Len(sent[k].bytes) = chunk_size
       /\ sent # <<>> => /\ Len(sent[Len(sent)].bytes) >= 1
                         /\ Len(sent[Len(sent)].bytes) <= chunk_size
       /\ data_bytes = <<>> => sent = <<>>

\* C2 witness: a returned transfer whose length is no multiple of the chunk size
C2_Witness ==
  /\ Returned
  /\ Len(sent) >= 2
  /\ Len(data_bytes) % chunk_size # 0

\* C3: chunks go out in strictly increasing chunk-number order, and each one
\* at least the pacing delay after the one before it.
C3_OrderedAndPaced ==
  \A k \in 2..Len(sent) :
    /\ sent[k].num > sent[k - 1].num
    /\ sent[k].at >= sent[k - 1].at + chunk_delay

\* C3 witness: three chunks written to the device
C3_Witness ==
  /\ Len(sent) >= 3
  /\ ~sent[3].sim


\* the outcome callbacks (success or failure) waiting in the Tk queue
QueuedOutcomes == {k \in 1..Len(uiq) : uiq[k].cb \in {"success", "failure"}}

SuccessQueued == \E k \in 1..Len(uiq) : uiq[k].cb = "success"

FailureQueued == \E k \in 1..Len(uiq) : uiq[k].cb = "failure"

SuccessReported == \E k \in 1..Len(reported) : reported[k].kind = "success"

FailureReported == \E k \in 1..Len(reported) : reported[k].kind = "failure"

\* C4: the bytes submit_task hands to send_ble_data start with "#START#" and
\* end with "#END#", whatever the upload mode.
C4_SentinelFramed ==
  pc = "enter" =>
    /\ IsPrefix(EncodeUtf8(START_SENTINEL), data_bytes)
    /\ IsSuffix(EncodeUtf8(END_SENTINEL), data_bytes)

\* C5: no submission reports success to the operator after transmitting zero
\* chunks.
C5_NoEmptySuccess == SuccessReported => sent # <<>>

\* "HH:MM": two digits, a colon, two digits, hours 00-23, minutes 00-59
StrictTime(t) ==
  /\ Len(t) = 5
  /\ t[3] = ":"
  /\ \A k \in {1, 2, 4, 5} : IsDigit(t[k])
  /\ 10 * DigitVal(t[1]) + DigitVal(t[2]) <= 23
  /\ 10 * DigitVal(t[4]) + DigitVal(t[5]) <= 59

WellFormedRecord(m) ==
  /\ m.tube # <<>>
  /\ m.type # <<>>
  /\ m.amount > 0
  /\ m.time_to_take # <<>>
  /\ \A k \in 1..Len(m.time_to_take) : StrictTime(m.time_to_take[k].time)

\* C6: every record a submission encodes has a non-empty tube and type, a
\* positive amount and at least one dose with a well-formed time.
C6_OnlyValidRecordsEncoded ==
  \A k \in 1..Len(task_records) : WellFormedRecord(task_records[k])

\* C7: if the device's address is not resolved or the connection is not
\* opened, no chunk is sent, no connection is held, and the submission goes to
\* its failure outcome: success is neither scheduled nor shown, and once the
\* thread has passed its handler the failure is scheduled or shown.
C7_ConnectFailure ==
  fault \in {"resolve", "connect"} =>
    /\ sent = <<>>
    /\ ~connected
    /\ pc \in {"raised", "finally", "idle"}
    /\ ~SuccessQueued /\ ~SuccessReported
    /\ pc # "raised" => (FailureQueued \/ FailureReported)

\* C7 witness: the connection could not be opened and the failure was shown
C7_Witness ==
  /\ fault = "connect"
  /\ FailureReported
  /\ device_address = RealAddress

\* C8: once the write of chunk i has raised, exactly the chunks 1..i-1 have
\* been sent and none is sent afterwards (no retry of i, no chunk beyond i),
\* and the submission goes to its failure outcome.
C8_WriteFailureAborts ==
  failed_chunk # 0 =>
    /\ Len(sent) = failed_chunk - 1
    /\ \A k \in 1..Len(sent) : sent[k].num < failed_chunk
    /\ pc \in {"raised", "finally", "idle"}
    /\ ~SuccessQueued /\ ~SuccessReported
    /\ pc # "raised" => (FailureQueued \/ FailureReported)

\* C8 witness: the write of a chunk after the first raised and the failure was
\* shown
C8_Witness ==
  /\ failed_chunk >= 2
  /\ FailureReported

\* the message names chunk i, itself or in the error it wraps
MentionsChunk(msg, i) ==
  \/ "chunk" \in DOMAIN msg /\ msg.chunk = i
  \/ /\ "cause" \in DOMAIN msg
     /\ \/ "chunk" \in DOMAIN msg.cause /\ msg.cause.chunk = i
        \/ /\ "cause" \in DOMAIN msg.cause
           /\ "chunk" \in DOMAIN msg.cause.cause
           /\ msg.cause.cause.chunk = i

\* C9: the error shown for a transfer that failed while sending chunk i names
\* chunk i.
C9_ErrorNamesChunk ==
  \A k \in 1..Len(reported) :
    (reported[k].kind = "failure" /\ failed_chunk # 0)
      => MentionsChunk(reported[k].msg, failed_chunk)

\* C10: a submission has at most one outcome, scheduled or shown; when its
\* thread has ended and only the button reset is left to run, exactly one has
\* been shown; and success is scheduled or shown only when nothing failed
\* and the chunks sent are all total_chunks chunks of the payload.
C10_OneOutcome ==
  /\ Cardinality(QueuedOutcomes) + Len(reported) <= 1
  /\ (pc = "idle" /\ is_sending) =>
       /\ uiq # <<>>
       /\ uiq[Len(uiq)].cb = "reset"
       /\ Cardinality(QueuedOutcomes) + Len(reported) = 1
  /\ (uiq # <<>> /\ Head(uiq).cb = "reset") => Len(reported) = 1
  /\ (SuccessQueued \/ SuccessReported) =>
       /\ fault = "none"
       /\ failed_chunk = 0
       /\ Len(sent) = total_chunks
       /\ \A k \in 1..Len(sent) : sent[k].num = k
       /\ SentBytes = data_bytes

\* C10 witness: success shown after a real transfer of several chunks
C10_Witness ==
  /\ SuccessReported
  /\ Len(sent) >= 2
  /\ ~sent[1].sim


\* the chunk numbers of the chunks sent so far
SentNums == {sent[k].num : k \in 1..Len(sent)}

\* C11: a progress event is emitted for chunk i only after chunk i's send has
\* completed: every progress event waiting in the Tk queue, and the one the
\* progress label shows, names a chunk that has been sent; so no event names a
\* chunk whose write raised.
C11_ProgressAfterSend ==
  /\ \A k \in 1..Len(uiq) :
       uiq[k].cb = "progress" => uiq[k].msg.chunk \in SentNums
  /\ "chunk" \in DOMAIN chunk_progress_label
       => chunk_progress_label.chunk \in SentNums
  /\ failed_chunk # 0 =>
       /\ \A k \in 1..Len(uiq) :
            uiq[k].cb = "progress" => uiq[k].msg.chunk # failed_chunk
       /\ "chunk" \in DOMAIN chunk_progress_label
            => chunk_progress_label.chunk # failed_chunk


\* C12: once cancellation has been requested with k of n chunks sent (k < n),
\* at most k+1 chunks are sent, the session never completes, and when it has
\* failed the link is closed.
C12_CancelStopsTransfer ==
  (cancel_at >= 0 /\ cancel_at < total_chunks) =>
    /\ Len(sent) <= cancel_at + 1
    /\ ~Returned
    /\ pc = "raised" => ~connected


\* the transport has not once returned the acknowledgment byte
NeverAcked == \A k \in 1..Len(acks) : acks[k] # "ack"

\* C13: while the acknowledged transport has never returned the right byte no
\* chunk beyond the first is sent, and once it has answered the first chunk
\* wrongly the session is Failed with AckError{chunk=1}, the link closed.
C13_AckAbort ==
  /\ NeverAcked => Len(sent) <= 1
  /\ (acks # <<>> /\ NeverAcked) =>
       /\ pc = "failed"
       /\ fault = "ack"
       /\ failed_chunk = 1
       /\ Len(sent) = 1
       /\ ~connected

\* C13 witness: a payload of several chunks whose first chunk was not
\* acknowledged
C13_Witness ==
  /\ acks # <<>>
  /\ NeverAcked
  /\ total_chunks >= 2
  /\ pc = "failed"


\* a submission has started and its reset_submit_button has not run yet
SubmissionOpen == pc # "idle" \/ is_sending

\* C14: while a submission is open the submit button is disabled, and a
\* submit_task thread starts only when none is running and the previous
\* submission's reset_submit_button has run.
C14_SingleSession ==
  /\ [](SubmissionOpen => submit_btn = "disabled")
  /\ [][(pc' = "encode" /\ pc # "encode") => (pc = "idle" /\ ~is_sending)]_vars

\* C14 witness: chunks are being written while everything submit_data checks
\* but the button would let a second submission through
C14_Witness ==
  /\ pc \in {"loop", "write", "pace"}
  /\ is_sending
  /\ submit_btn = "disabled"
  /\ ble_var # ""
  /\ upload_mode = "json"
  /\ medication_data # <<>>


\* the display names refresh_ble_devices gives the status "Simulation"
SimulationNames == {"Simulation Device", "Simulation Device (BLE Error)"}

\* C15: a transfer to a device listed as a simulation device opens no BLE
\* connection and writes to no characteristic, and when send_ble_data has
\* returned, the time slept is that of the status steps and one pacing delay
\* per chunk.
C15_SimulationRouted ==
  (task_device \in SimulationNames /\ pc \notin {"idle", "encode", "steps"}) =>
    /\ pc \notin {"connect", "settle", "loop", "write", "pace"}
    /\ ~connected
    /\ fault \notin {"connect", "write"}
    /\ \A k \in 1..Len(sent) : sent[k].sim
    /\ Returned =>
         now = Len(Steps) * STEP_DELAY + total_chunks * chunk_delay

\* the scan found no device with an address
NothingDiscovered(env) ==
  \/ ~env.bleak
  \/ env.loop = "raises"
  \/ env.scan.kind # "devices"
  \/ \A k \in 1..Len(env.scan.found) : env.scan.found[k].address = ""

\* C16: get_ble_devices never raises, whatever the scan does; it returns a
\* mapping with at least one entry, and when nothing was discovered every
\* entry holds a placeholder address (the zero address or the simulation one).
C16_DiscoveryNeverRaises ==
  /\ DOMAIN ble_devices # {}
  /\ last_scan # NoScan =>
       /\ ~last_scan.result.raised
       /\ DOMAIN last_scan.result.value # {}
       /\ NothingDiscovered(last_scan.env) =>
            \A n \in DOMAIN last_scan.result.value :
              last_scan.result.value[n] \in {PlaceholderAddress, SimErrorAddress}
       /\ ~NothingDiscovered(last_scan.env) =>
            \E n \in DOMAIN last_scan.result.value :
              last_scan.result.value[n] = RealAddress

\* C16 witness: a later scan raised inside the event loop and the list was
\* refreshed from what get_ble_devices returned
C16_Witness ==
  /\ last_scan # NoScan
  /\ last_scan.env.bleak
  /\ last_scan.env.loop = "raises"
  /\ ble_devices = last_scan.result.value
  /\ reported # <<>>


\* C17: in json mode the records submit_task encodes are the medication data
\* as it stood when the operator confirmed, and the bytes handed to
\* send_ble_data are their encoding, whatever the main loop ran in between.
C17_PayloadIsConfirmedData ==
  (task_mode = "json" /\ pc # "encode") =>
    /\ task_records = confirmed_records
    /\ pc = "enter" =>
         data_bytes = EncodeUtf8(FormatPayload(confirmed_records))


UniqueTubes(meds) ==
  \A j, k \in 1..Len(meds) : j # k => meds[j].tube # meds[k].tube

\* save_medication has stored a record: the schedule list was taken and the
\* manual list changed
Saved ==
  /\ current_med_schedules # <<>>
  /\ current_med_schedules' = <<>>
  /\ manual_medications' # manual_medications
  /\ manual_medications' # <<>>

\* the record with the given tube is dropped, the others keep their order
RECURSIVE WithoutTube(_, _)
WithoutTube(meds, tube) ==
  IF meds = <<>> THEN <<>>
  ELSE IF Head(meds).tube = tube THEN WithoutTube(Tail(meds), tube)
  ELSE <<Head(meds)>> \o WithoutTube(Tail(meds), tube)

\* C18: no two records of manual_medications have the same tube, and a save
\* leaves the list as it was without the saved tube's old record, followed by
\* the new record, which holds the schedules just entered.
C18_UniqueTubes ==
  /\ [](UniqueTubes(manual_medications))
  /\ [][Saved =>
          LET new == manual_medications'[Len(manual_medications')]
          IN /\ new.time_to_take = current_med_schedules
             /\ manual_medications' =
                  Append(WithoutTube(manual_medications, new.tube), new)]_vars

\* C18 witness: the manual list holds another record for tube1 than the one
\* taken over as medication data before, beside a record for tube2
C18_Witness ==
  /\ Len(manual_medications) = 2
  /\ manual_medications[2].tube = Tube1
  /\ \E k \in 1..Len(medication_data) :
       /\ medication_data[k].tube = Tube1
       /\ medication_data[k] # manual_medications[2]

\* C19: every time accepted into the schedule list is a strict two-digit
\* HH:MM string with hours 00-23 and minutes 00-59.
C19_StrictTimes ==
  \A k \in 1..Len(current_med_schedules) :
    StrictTime(current_med_schedules[k].time)


\* the tokens after dosage1 are times, each followed or not by an integer
\* dosage
RECURSIVE TailWellFormed(_)
TailWellFormed(tail) ==
  \/ tail = <<>>
  \/ /\ is_valid_time(tail[1])
     /\ \/ TailWellFormed(Tail(tail))
        \/ /\ Len(tail) >= 2
           /\ IsPyInt(tail[2])
           /\ TailWellFormed(Tail(Tail(tail)))

\* the schedule entries such a tail stands for: an omitted dosage is dosage1
RECURSIVE TailSchedules(_, _)
TailSchedules(tail, d1) ==
  IF tail = <<>> THEN <<>>
  ELSE IF Len(tail) >= 2 /\ IsPyInt(tail[2])
  THEN <<[time |-> tail[1], dosage |-> PyInt(tail[2])]>>
         \o TailSchedules(Tail(Tail(tail)), d1)
  ELSE <<[time |-> tail[1], dosage |-> d1]>> \o TailSchedules(Tail(tail), d1)

\* Name|Amount|time1|dosage1 and a well-formed tail
LineWellFormed(tokens) ==
  /\ Len(tokens) >= 4
  /\ tokens[1] # <<>>
  /\ IsPyInt(tokens[2])
  /\ is_valid_time(tokens[3])
  /\ IsPyInt(tokens[4])
  /\ TailWellFormed(SubSeq(tokens, 5, Len(tokens)))

\* C20: parse_line succeeds on every line Name|Amount|time1|dosage1 followed
\* by times of which each may or may not have its dosage, and gives a time
\* without dosage the dosage dosage1.
C20_OptionalDosage ==
  LET tokens == Split(line, "|")
  IN (parsed # NotParsed /\ LineWellFormed(tokens)) =>
       /\ parsed.kind = "ok"
       /\ parsed.schedules =
            <<[time |-> tokens[3], dosage |-> PyInt(tokens[4])]>>
              \o TailSchedules(SubSeq(tokens, 5, Len(tokens)), PyInt(tokens[4]))

\* the lines of the text box that parse_line refuses
InvalidLines(lines) ==
  {k \in 1..Len(lines) : parse_line(lines[k]).kind = "error"}

JoinedLines(lines) == JoinWith(lines, <<"\n">>)

JoinedStrippedLines(lines) == JoinWith(StripAll(lines), <<"\n">>)

\* what parse_multiline gave is one record per non-blank line or the refusal
\* of the first invalid line, the QR payload being the lines joined, stripped
\* or as they are
MultiAsClaimed(stripped) ==
  multi # NotParsed =>
    LET lines == NonBlankLines(prescription_text)
        invalid == InvalidLines(lines)
    IN IF invalid = {}
       THEN /\ multi.kind = "ok"
            /\ multi.meds = [k \in 1..Len(lines) |-> parse_line(lines[k])]
            /\ multi.qr_payload = IF stripped THEN JoinedStrippedLines(lines)
                                  ELSE JoinedLines(lines)
       ELSE /\ multi.kind = "error"
            /\ multi.idx \in invalid
            /\ \A k \in invalid : multi.idx <= k
            /\ DOMAIN multi \cap {"meds", "qr_payload"} = {}

C22_Pages ==
  pages # NotParsed =>
    LET r == parse_multiline(prescription_text)
    IN IF r.kind = "ok" /\ Len(r.meds) >= 1
       THEN /\ pages.kind = "ok"
            /\ Len(pages.pages) = Ceil(Len(r.meds), MEDS_PER_PAGE)
            /\ \A p \in 1..Len(pages.pages) :
                 /\ Len(pages.pages[p].meds) \in 1..MEDS_PER_PAGE
                 /\ pages.pages[p].qr.kind # "none" <=> p = Len(pages.pages)
                 /\ pages.pages[p].qr.kind = "code" =>
                      pages.pages[p].qr.data = r.qr_payload
            /\ Concat([p \in 1..Len(pages.pages) |-> pages.pages[p].meds])
                 = r.meds
       ELSE /\ pages.kind = "error"
            /\ "pages" \notin DOMAIN pages

\* three pages were made, the last of them with one medication and the code
C22_Witness ==
  /\ pages # NotParsed
  /\ pages.kind = "ok"
  /\ Len(pages.pages) = 3
  /\ Len(pages.pages[3].meds) = 1
  /\ pages.pages[3].qr.kind = "code"
  /\ pages.pages[1].qr.kind = "none"

\* C23: a transfer over a real link runs on a connection its own attempt
\* opened, and that connection is closed again on every way out of
\* send_ble_data, before the outcome is handed to the main loop and shown;
\* no submission starts with a connection open.
C23_ConnectionClosed ==
  /\ pc \in {"settle", "loop", "write", "pace"} => connected
  /\ pc \in {"idle", "encode", "steps", "enter", "connect", "returned",
             "raised", "finally"} => ~connected
  /\ (SuccessQueued \/ FailureQueued \/ reported # <<>>) => ~connected

\* every chunk went over a real link, the success was shown and the
\* connection is closed
C23_Witness ==
  /\ SuccessReported
  /\ sent # <<>>
  /\ \A k \in 1..Len(sent) : ~sent[k].sim
  /\ Len(sent) = total_chunks
  /\ ~connected

\* the state RetrySpec starts from: a failed submission has been shown and the
\* button is enabled again
AfterFailure ==
  /\ pc = "idle"
  /\ uiq = <<>>
  /\ submit_btn = "normal"
  /\ ~is_sending
  /\ status_label = "Submission failed"
  /\ medication_data # <<>>
  /\ ble_var # ""

\* C24: a submission made after a failed one builds its payload again from
\* the medication data and sends it from chunk 1 at byte offset 0: the chunks
\* sent are numbered 1, 2, ... and together are a prefix of the new payload.
C24_RetryRestarts ==
  /\ (pc \notin {"idle", "encode"} /\ task_mode = "json") =>
       data = FormatPayload(medication_data)
  /\ pc \in {"connect", "settle", "sim_loop", "loop", "write", "pace",
             "sim_sleep"} => data_bytes = EncodeUtf8(data)
  /\ pc \in {"connect", "settle"} => (offset = 0 /\ sent = <<>>)
  /\ \A k \in 1..Len(sent) : sent[k].num = k
  /\ pc # "idle" => IsPrefix(SentBytes, data_bytes)
  /\ pc = "write" =>
       (chunk_num = Len(sent) + 1 /\ offset = Len(sent) * chunk_size)

\* the retried submission is writing its first chunk
C24_Witness ==
  /\ pc = "write"
  /\ chunk_num = 1
  /\ offset = 0
  /\ sent = <<>>
  /\ chunk_data = SubSeq(EncodeUtf8(FormatPayload(medication_data)), 1,
                         CHUNK_SIZE)

\* sub occurs in s at position i
OccursAt(sub, s, i) ==
  i + Len(sub) - 1 <= Len(s) /\ SubSeq(s, i, i + Len(sub) - 1) = sub

\* C25: in a payload built from accepted medication records "#START#" occurs
\* only as the first characters and "#END#" only as the last ones.
C25_SentinelsOnlyAtEnds ==
  (pc = "steps" /\ task_mode = "json") =>
    \A i \in 1..Len(data) :
      /\ OccursAt(START_SENTINEL, data, i) => i = 1
      /\ OccursAt(END_SENTINEL, data, i) => i = Len(data) - Len(END_SENTINEL) + 1

\* C26: while a row of the device list is selected and medication data is
\* loaded in json mode, no submit_data is turned down with 'Please select a
\* BLE device!'.
C26_SelectedDeviceAccepted ==
  [][(/\ selected_ble_device # NoDevice
      /\ upload_mode = "json"
      /\ medication_data # <<>>
      /\ last_message # "Please select a BLE device!")
       => last_message' # "Please select a BLE device!"]_vars

CompletionTexts == {"Complete!", "Submission successful"}

\* send_ble_data has returned without a failure, every chunk of the payload
\* having gone out (through the connection, or walked by the simulation)
TransferDone ==
  /\ pc \in {"returned", "finally", "idle"}
  /\ fault = "none"
  /\ Len(sent) = total_chunks

\* C28: the status label takes a text that announces completion only once
\* the connection has been made and every chunk has been sent.
C28_CompletionAfterTransfer ==
  [][(status_label' # status_label /\ status_label' \in CompletionTexts)
       => TransferDone]_vars

\* C29: the schedule list widget shows the entries of current_med_schedules
\* and the medication list widget the records of manual_medications, row for
\* row in the same order, so the index of a selected row is the index of the
\* record it displays.
C29_WidgetsMirrorLists ==
  /\ Len(schedule_listbox) = Len(current_med_schedules)
  /\ \A k \in 1..Len(current_med_schedules) :
       schedule_listbox[k] =
         <<current_med_schedules[k].time, current_med_schedules[k].dosage>>
  /\ Len(manual_listbox) = Len(manual_medications)
  /\ \A k \in 1..Len(manual_medications) :
       /\ manual_listbox[k][1] = manual_medications[k].tube
       /\ manual_listbox[k][2] = manual_medications[k].type
       /\ manual_listbox[k][4] = SchedulesStr(manual_medications[k].time_to_take)

\* each widget holds two rows that differ
C29_Witness ==
  /\ Len(manual_listbox) = 2
  /\ manual_listbox[1] # manual_listbox[2]
  /\ Len(schedule_listbox) = 2
  /\ schedule_listbox[1] # schedule_listbox[2]
  /\ C29_WidgetsMirrorLists

\* C27: every started submission eventually ends: the thread of submit_task
\* terminates, reset_submit_button runs, is_sending is False and the submit
\* button is enabled again.
C27_SubmissionEnds ==
  is_sending ~> (/\ ~is_sending
                 /\ submit_btn = "normal"
                 /\ pc = "idle"
                 /\ uiq = <<>>)

\* a submission has succeeded and has ended
C27_Witness ==
  /\ status_label = "Submission successful"
  /\ ~is_sending
  /\ submit_btn = "normal"
  /\ pc = "idle"
  /\ uiq = <<>>

====
